---- MODULE Spec2Model ----
(***************************************************************************)
(* A model of the Power BI analyzer (pb_analyzer): the hidden-column       *)
(* counter, the schema extractor and the usage classifier of utils.py, the *)
(* global column accumulator of base_analyzer.py and the concurrent scan   *)
(* of BaseAnalyzer._run_analysis with the two _process_report tasks.       *)
(*                                                                         *)
(* Strings are sequences of one-character strings, JSON documents are      *)
(* tagged values, a Python dict is the sequence of its (key, value) items  *)
(* in insertion order.                                                     *)
(***************************************************************************)
EXTENDS Integers, Sequences, FiniteSets, TLC

VARIABLES
    \* ---- one report's documents and what utils.py computes from them
    phase,                 \* which specification runs and how far it is
    conceptual_schema,     \* the conceptual schema document of a report
    report_columns,        \* fetch_columns_and_tables(conceptual_schema)
    num_of_hidden,         \* count_hidden_true_in_dict(conceptual_schema)
    exploration_response,  \* the evidence document
    classified,            \* get_classified_columns(report_columns, exploration_response)
    \* ---- the fields of BaseAnalyzer
    _results,
    _unused_columns,
    _reports_with_hidden_columns,
    _reports_with_unused_columns,
    _success_count,
    _errors,
    \* ---- the scan: _run_analysis and its report tasks
    analyzer,              \* "public" or "shared": which _process_report runs
    time_limit,            \* the time budget, in clock ticks
    now,                   \* datetime.now()
    start_time,            \* the local start_time of _run_analysis
    coordinator,           \* where _run_analysis is
    timed_out,             \* the local timed_out of _run_analysis
    task,                  \* per report: where its _process_report task is
    attempt,               \* per report: the attempt of _send_conceptual_schema_request
    consumed,              \* the futures the as_completed loop has taken
    csv_rows,              \* what write_to_csv wrote
    \* ---- history, for the claims
    unused_seen,           \* the (table, column) pairs some inserted report had as unused
    counted,               \* the reports whose task added one to _success_count
    raised,                \* the reports whose fetch or classify raised
    at_timeout,            \* task, as it was when the first task raised TimeoutError
    \* ---- one call of _send_conceptual_schema_request
    retry_pc,              \* where the call is
    retry_attempt,         \* the loop variable attempt
    requests,              \* the number of requests.post calls made
    last_response,         \* the last response
    waits,                 \* the arguments of the time.sleep calls, in order
    \* ---- the workers of the pool inside _process_report, statement by statement
    worker                 \* per worker: its position and its locals

docVars  == <<phase, conceptual_schema, report_columns, num_of_hidden,
              exploration_response, classified>>
statVars == <<_results, _unused_columns, _reports_with_hidden_columns,
              _reports_with_unused_columns, _success_count, _errors>>
scanVars == <<analyzer, time_limit, now, start_time, coordinator, timed_out,
              task, attempt, consumed, csv_rows>>
histVars == <<unused_seen, counted, raised, at_timeout>>

retryVars == <<retry_pc, retry_attempt, requests, last_response, waits>>
stepVars == <<retryVars, worker>>

vars == <<docVars, statVars, scanVars, histVars, stepVars>>

\* BaseAnalyzer.__init__
NewAnalyzer ==
    /\ _results = <<>>
    /\ _unused_columns = <<>>
    /\ _reports_with_hidden_columns = 0
    /\ _reports_with_unused_columns = 0
    /\ _success_count = 0
    /\ _errors = <<>>

\* No scan runs.
NoScan ==
    /\ analyzer = "none"
    /\ time_limit = 0
    /\ now = 0
    /\ start_time = 0
    /\ coordinator = "none"
    /\ timed_out = FALSE
    /\ task = <<>>
    /\ attempt = <<>>
    /\ consumed = {}
    /\ csv_rows = <<>>

NoHistory ==
    /\ unused_seen = {}
    /\ counted = {}
    /\ raised = {}
    /\ at_timeout = <<>>

\* No call of _send_conceptual_schema_request and no worker is followed.
NoSteps ==
    /\ retry_pc = "none"
    /\ retry_attempt = 0
    /\ requests = 0
    /\ last_response = "none"
    /\ waits = <<>>
    /\ worker = <<>>

----------------------------------------------------------------------------
(* Strings                                                                 *)

\* The two literals of utils.py, character by character.
DateTableTemplate ==
    <<"D","a","t","e","T","a","b","l","e","T","e","m","p","l","a","t","e">>
LocalDateTable ==
    <<"L","o","c","a","l","D","a","t","e","T","a","b","l","e">>

\* str.startswith
startswith(s, prefix) ==
    /\ Len(s) >= Len(prefix)
    /\ SubSeq(s, 1, Len(prefix)) = prefix

\* Python's `sub in s` on strings
IsSubstring(sub, s) ==
    \E i \in 0..(Len(s) - Len(sub)) : SubSeq(s, i + 1, i + Len(sub)) = sub

----------------------------------------------------------------------------
(* JSON values                                                             *)

Null       == [tag |-> "null", val |-> <<>>]
Bool(b)    == [tag |-> "bool", val |-> b]
Str(s)     == [tag |-> "str",  val |-> s]
Arr(items) == [tag |-> "arr",  val |-> items]
\* items: a sequence of <<key, value>>, the dict's insertion order
Obj(items) == [tag |-> "obj",  val |-> items]

\* Python truthiness of a JSON value
Truthy(v) ==
    CASE v.tag = "null" -> FALSE
      [] v.tag = "bool" -> v.val
      [] OTHER          -> Len(v.val) > 0

HasKey(d, key) == \E i \in 1..Len(d.val) : d.val[i][1] = key

\* dict.get(key, default)
dict_get(d, key, default) ==
    IF HasKey(d, key)
    THEN d.val[CHOOSE i \in 1..Len(d.val) : d.val[i][1] = key][2]
    ELSE default

----------------------------------------------------------------------------
(* utils.py: count_hidden_true_in_dict                                     *)

IsDateTableName(value) ==
    /\ value.tag = "str"
    /\ (startswith(value.val, DateTableTemplate) \/ startswith(value.val, LocalDateTable))

RECURSIVE recursive_count(_, _)
RECURSIVE recursive_count_items(_, _, _)
RECURSIVE recursive_count_list(_, _, _)

\* The loop `for key, value in data.items()` from item i on: skip_entity is a
\* local of the call, set when the loop reaches the Name key and seen by the
\* items after it only.
recursive_count_items(items, i, skip_entity) ==
    IF i > Len(items) THEN 0
    ELSE LET key   == items[i][1]
             value == items[i][2]
             skip  == skip_entity \/ (key = "Name" /\ IsDateTableName(value))
             hit   == IF key = "Hidden" /\ value.tag = "bool" /\ value.val /\ ~skip
                      THEN 1 ELSE 0
         IN  hit + recursive_count(value, skip) + recursive_count_items(items, i + 1, skip)

RECURSIVE recursive_count_list_shared(_, _, _)
\* A loop over the elements in which the flag set inside one element is
\* still set for the elements after it.
recursive_count_list_shared(items, i, skip_entity) ==
    IF i > Len(items) THEN 0
    ELSE recursive_count(items[i], skip_entity)
         + recursive_count_list_shared(items, i + 1,
               skip_entity \/ (/\ items[i].tag = "obj"
                               /\ \E n \in 1..Len(items[i].val) :
                                      /\ items[i].val[n][1] = "Name"
                                      /\ IsDateTableName(items[i].val[n][2])))

\* The loop `for item in data` from element i on.
recursive_count_list(items, i, skip_entity) ==
    IF i > Len(items) THEN 0
    ELSE recursive_count(items[i], skip_entity)
         + recursive_count_list(items, i + 1, skip_entity)

recursive_count(data, skip_entity) ==
    CASE data.tag = "obj" -> recursive_count_items(data.val, 1, skip_entity)
      [] data.tag = "arr" -> recursive_count_list(data.val, 1, skip_entity)
      [] OTHER            -> 0

count_hidden_true_in_dict(response) == recursive_count(response, FALSE)

----------------------------------------------------------------------------
(* utils.py: _extract_tables_and_columns, fetch_columns_and_tables         *)

UnknownTable  == <<"U","n","k","n","o","w","n","T","a","b","l","e">>
UnknownColumn == <<"U","n","k","n","o","w","n","C","o","l","u","m","n">>

\* A column dict. The keys 'unused' and 'used' are absent until
\* get_classified_columns writes them.
ColumnDict(table, column) ==
    [table |-> table, column |-> column, unused |-> "absent", used |-> "absent"]

RECURSIVE extract_properties(_, _, _)
\* `for prop in entity.get('Properties', [])` from property j on
extract_properties(table_name, props, j) ==
    IF j > Len(props) THEN <<>>
    ELSE <<ColumnDict(table_name, dict_get(props[j], "Name", Str(UnknownColumn)).val)>>
         \o extract_properties(table_name, props, j + 1)

RECURSIVE extract_entities(_, _)
\* `for entity in schema.get('schema', {}).get('Entities', [])` from entity k on
extract_entities(entities, k) ==
    IF k > Len(entities) THEN <<>>
    ELSE LET entity     == entities[k]
             table_name == dict_get(entity, "Name", Str(UnknownTable)).val
         IN  extract_properties(table_name, dict_get(entity, "Properties", Arr(<<>>)).val, 1)
             \o extract_entities(entities, k + 1)

RECURSIVE extract_schemas_no_break(_, _)
\* A loop over the schema entries that skips an error entry and goes on.
extract_schemas_no_break(schemas, i) ==
    IF i > Len(schemas) THEN <<>>
    ELSE LET schema == schemas[i]
         IN  (IF Truthy(dict_get(schema, "error", Null)) THEN <<>>
              ELSE extract_entities(
                       dict_get(dict_get(schema, "schema", Obj(<<>>)), "Entities", Arr(<<>>)).val, 1))
             \o extract_schemas_no_break(schemas, i + 1)

RECURSIVE extract_schemas(_, _)
\* `for schema in response.get('schemas', [{}])` from entry i on, with its break
extract_schemas(schemas, i) ==
    IF i > Len(schemas) THEN <<>>
    ELSE LET schema == schemas[i]
         IN  IF Truthy(dict_get(schema, "error", Null)) THEN <<>>
             ELSE extract_entities(
                      dict_get(dict_get(schema, "schema", Obj(<<>>)), "Entities", Arr(<<>>)).val, 1)
                  \o extract_schemas(schemas, i + 1)

_extract_tables_and_columns(response) ==
    extract_schemas(dict_get(response, "schemas", Arr(<<Obj(<<>>)>>)).val, 1)

\* The mutant: the filter tests the start of the table name, as the hidden
\* counter does.
IsUserTablePrefixMutant(item) ==
    /\ ~startswith(item.table, DateTableTemplate)
    /\ ~startswith(item.table, LocalDateTable)

\* The filter of fetch_columns_and_tables: the item is kept.
IsUserTable(item) ==
    /\ ~IsSubstring(DateTableTemplate, item.table)
    /\ ~IsSubstring(LocalDateTable, item.table)

RECURSIVE filter_user_tables(_)
\* [item for item in extracted_cols_and_tables if ...]
filter_user_tables(items) ==
    IF items = <<>> THEN <<>>
    ELSE (IF IsUserTable(Head(items)) THEN <<Head(items)>> ELSE <<>>)
         \o filter_user_tables(Tail(items))

\* An extractor that keeps the date tables.
fetch_all_tables(schema_doc) == _extract_tables_and_columns(schema_doc)

fetch_columns_and_tables(schema_doc) ==
    filter_user_tables(_extract_tables_and_columns(schema_doc))

----------------------------------------------------------------------------
(* utils.py: get_classified_columns                                        *)

\* The printable ASCII characters in code point order (without the backquote,
\* which a TLA+ string cannot hold).
Ascii ==
    <<
        " ", "!", "\"", "#", "$", "%", "&", "'", "(", ")", "*", "+", ",", "-", ".", "/",
        "0", "1", "2", "3", "4", "5", "6", "7", "8", "9", ":", ";", "<", "=", ">", "?",
        "@", "A", "B", "C", "D", "E", "F", "G", "H", "I", "J", "K", "L", "M", "N", "O",
        "P", "Q", "R", "S", "T", "U", "V", "W", "X", "Y", "Z", "[", "\\", "]", "^", "_",
        "a", "b", "c", "d", "e", "f", "g", "h", "i", "j", "k", "l", "m", "n", "o",
        "p", "q", "r", "s", "t", "u", "v", "w", "x", "y", "z", "{", "|", "}", "~" >>

\* The rank of c by code point: ord(a) < ord(b) iff CodePoint(a) < CodePoint(b).
CodePoint(c) == CHOOSE i \in 1..Len(Ascii) : Ascii[i] = c

\* Python's a < b on strings: by code point, a proper prefix first
StrLess(a, b) ==
    \E k \in 1..Len(b) :
        /\ \A j \in 1..(k - 1) : j <= Len(a) /\ a[j] = b[j]
        /\ \/ k = Len(a) + 1
           \/ k <= Len(a) /\ CodePoint(a[k]) < CodePoint(b[k])

RECURSIVE insert_sorted(_, _)
insert_sorted(x, sorted) ==
    IF sorted = <<>> THEN <<x>>
    ELSE IF StrLess(x, Head(sorted)) THEN <<x>> \o sorted
    ELSE <<Head(sorted)>> \o insert_sorted(x, Tail(sorted))

\* The mutant of list_sort: the list is left in its order.
list_sort_unsorted(names) == names

RECURSIVE list_sort(_)
\* list.sort() on a list of strings
list_sort(names) ==
    IF names = <<>> THEN <<>>
    ELSE insert_sorted(names[Len(names)], list_sort(SubSeq(names, 1, Len(names) - 1)))

RECURSIVE str_join(_, _)
\* sep.join(parts)
str_join(sep, parts) ==
    IF parts = <<>> THEN <<>>
    ELSE IF Len(parts) = 1 THEN parts[1]
    ELSE parts[1] \o sep \o str_join(sep, Tail(parts))

\* s.replace(c, '')
str_remove(s, c) == SelectSeq(s, LAMBDA x : x # c)

RECURSIVE json_escape(_)
\* The escapes json.dumps writes inside a string literal (the strings of the
\* model are printable ASCII: only the double quote and the backslash),
\* character by character, the string halved at each step.
json_escape(s) ==
    IF s = <<>> THEN <<>>
    ELSE IF Len(s) = 1
         THEN (CASE s[1] = "\"" -> <<"\\", "\"">>
                 [] s[1] = "\\" -> <<"\\", "\\">>
                 [] OTHER       -> s)
    ELSE json_escape(SubSeq(s, 1, Len(s) \div 2))
         \o json_escape(SubSeq(s, Len(s) \div 2 + 1, Len(s)))

json_literal(s) == <<"\"">> \o json_escape(s) \o <<"\"">>

RECURSIVE json_dumps(_)
RECURSIVE json_dumps_each(_)
RECURSIVE json_dumps_items(_)
json_dumps_each(items) ==
    IF items = <<>> THEN <<>>
    ELSE <<json_dumps(Head(items))>> \o json_dumps_each(Tail(items))

\* The keys of an evidence object are strings of characters.
json_dumps_items(items) ==
    IF items = <<>> THEN <<>>
    ELSE <<json_literal(Head(items)[1]) \o <<":", " ">> \o json_dumps(Head(items)[2])>>
         \o json_dumps_items(Tail(items))

\* json.dumps with its default separators
json_dumps(v) ==
    CASE v.tag = "null" -> <<"n","u","l","l">>
      [] v.tag = "bool" -> IF v.val THEN <<"t","r","u","e">> ELSE <<"f","a","l","s","e">>
      [] v.tag = "str"  -> json_literal(v.val)
      [] v.tag = "arr"  -> <<"[">> \o str_join(<<",", " ">>, json_dumps_each(v.val)) \o <<"]">>
      [] OTHER          -> <<"{">> \o str_join(<<",", " ">>, json_dumps_items(v.val)) \o <<"}">>

\* A normalisation that strips the double quotes only.
normalized_double_only(json_string) == str_remove(json_dumps(json_string), "\"")

\* json_str.replace('"', '').replace("'", '')
normalized_json_string(json_string) ==
    str_remove(str_remove(json_dumps(json_string), "\""), "'")

\* f'{table}.{column}'
QualifiedName(column) == column.table \o <<".">> \o column.column

\* The mutant of IsUnusedIn: the column name alone is searched.
IsUnusedInColumnOnly(column, normalized) == ~IsSubstring(column.column, normalized)

\* the condition of the comprehension unused_columns_and_tables
IsUnusedIn(column, normalized) == ~IsSubstring(QualifiedName(column), normalized)

RECURSIVE unused_columns_and_tables(_, _)
unused_columns_and_tables(columns, normalized) ==
    IF columns = <<>> THEN <<>>
    ELSE (IF IsUnusedIn(Head(columns), normalized) THEN <<Head(columns)>> ELSE <<>>)
         \o unused_columns_and_tables(Tail(columns), normalized)

RECURSIVE table_keys_last_first(_, _)
\* The tables in the reverse of the order in which they are first met.
table_keys_last_first(columns, seen) ==
    IF columns = <<>> THEN <<>>
    ELSE IF Head(columns).table \in seen THEN table_keys_last_first(Tail(columns), seen)
    ELSE table_keys_last_first(Tail(columns), seen \cup {Head(columns).table})
         \o <<Head(columns).table>>

RECURSIVE table_keys(_, _)
\* The keys of the dict `tables`, in insertion order.
table_keys(columns, seen) ==
    IF columns = <<>> THEN <<>>
    ELSE IF Head(columns).table \in seen THEN table_keys(Tail(columns), seen)
    ELSE <<Head(columns).table>> \o table_keys(Tail(columns), seen \cup {Head(columns).table})

RECURSIVE columns_of_table(_, _)
\* [column['column'] for column in columns if column['table'] == table]
columns_of_table(columns, table) ==
    IF columns = <<>> THEN <<>>
    ELSE (IF Head(columns).table = table THEN <<Head(columns).column>> ELSE <<>>)
         \o columns_of_table(Tail(columns), table)

InSeq(x, seq) == \E i \in 1..Len(seq) : seq[i] = x

\* One pass of the loop `for table, columns in tables.items()`: the entries it
\* appends to unused_columns (none or one).
table_entry(table, report_cols, unused) ==
    LET table_unused_columns == columns_of_table(unused, table)
        columns              == list_sort(columns_of_table(report_cols, table))
        sorted_unused        == list_sort(table_unused_columns)
    IN  IF table_unused_columns = <<>> THEN <<>>
        ELSE IF sorted_unused = columns
             THEN <<table \o <<":", " ", "[", ".", "*", "]">>>>
        ELSE IF \E i \in 1..Len(columns) : ~InSeq(columns[i], sorted_unused)
             THEN <<table \o <<":", " ", "[">> \o str_join(<<",", " ">>, sorted_unused) \o <<"]">>>>
        ELSE <<>>

RECURSIVE table_entries(_, _, _)
table_entries(keys, report_cols, unused) ==
    IF keys = <<>> THEN <<>>
    ELSE table_entry(Head(keys), report_cols, unused)
         \o table_entries(Tail(keys), report_cols, unused)

\* The list unused_columns (the per-table entries) of get_classified_columns.
unused_columns(report_cols, json_string) ==
    table_entries(table_keys(report_cols, {}), report_cols,
                  unused_columns_and_tables(report_cols, normalized_json_string(json_string)))

\* A marking that takes the flag back from a column that already has it.
mark_column_toggle(column, unused) ==
    [column EXCEPT
        !.used   = "False",
        !.unused = IF /\ column.unused # "True"
                      /\ \E i \in 1..Len(unused) :
                             /\ unused[i].table = column.table
                             /\ unused[i].column = column.column
                   THEN "True" ELSE "absent"]

\* The last loop: 'used' is written on every column, 'unused' on the ones that
\* equal, by table and column, a member of unused_columns_and_tables.
mark_column(column, unused) ==
    [column EXCEPT
        !.used   = "False",
        !.unused = IF \E i \in 1..Len(unused) :
                        /\ unused[i].table = column.table
                        /\ unused[i].column = column.column
                   THEN "True" ELSE @]

get_classified_columns(report_cols, json_string) ==
    LET unused == unused_columns_and_tables(report_cols, normalized_json_string(json_string))
    IN  [summary |-> str_join(<<",", " ">>, unused_columns(report_cols, json_string)),
         columns |-> [i \in 1..Len(report_cols) |-> mark_column(report_cols[i], unused)]]

----------------------------------------------------------------------------
(* The documents of one report                                             *)

\* The bounds of the inputs.
MaxEntities == 2

Sales == <<"S","a","l","e","s">>
Qty   == <<"Q","t","y">>
Price == <<"P","r","i","c","e">>

\* A user table, the two synthetic date tables, and a table whose name holds
\* a literal without starting with it.
EntityNames ==
    { Sales,
      LocalDateTable \o <<"_","1">>,
      DateTableTemplate \o <<"_","1">>,
      <<"M","y">> \o LocalDateTable }

PropQty   == Obj(<< <<"Name", Str(Qty)>> >>)
PropPrice == Obj(<< <<"Name", Str(Price)>>, <<"Hidden", Bool(TRUE)>> >>)

PropertyLists == { <<PropQty, PropPrice>>, <<PropPrice>> }

\* The order of an entity's keys: Name, Hidden, Properties.
Layouts == { "NHP", "HNP", "PN" }

Entity(name, props, layout) ==
    LET N == <<"Name", Str(name)>>
        H == <<"Hidden", Bool(TRUE)>>
        P == <<"Properties", Arr(props)>>
    IN  Obj(CASE layout = "NHP" -> <<N, H, P>>
              [] layout = "HNP" -> <<H, N, P>>
              [] OTHER          -> <<P, N>>)

Entities ==
    { Entity(name, props, layout) :
        name \in EntityNames, props \in PropertyLists, layout \in Layouts }

SchemaEntry(entities) == Obj(<< <<"schema", Obj(<< <<"Entities", Arr(entities)>> >>)>> >>)

ErrorEntry(entities) ==
    Obj(<< <<"error", Str(<<"E">>)>>,
           <<"schema", Obj(<< <<"Entities", Arr(entities)>> >>)>> >>)

\* An entry that carries the key error with the value null.
NullErrorEntry(entities) ==
    Obj(<< <<"error", Null>>,
           <<"schema", Obj(<< <<"Entities", Arr(entities)>> >>)>> >>)

TailEntities == << Entity(Sales, <<PropQty>>, "NHP") >>

\* One schema entry; two entries; an entry and an error entry after it; an
\* error entry first; an entry whose error is null first.
DocShapes == { "one", "two", "error_last", "error_first", "null_error_first" }

SchemaDoc(entities, shape) ==
    Obj(<< <<"schemas",
             Arr(CASE shape = "one"        -> <<SchemaEntry(entities)>>
                   [] shape = "two"        -> <<SchemaEntry(entities), SchemaEntry(TailEntities)>>
                   [] shape = "error_last" -> <<SchemaEntry(entities), ErrorEntry(TailEntities)>>
                   [] shape = "null_error_first" ->
                          <<NullErrorEntry(entities), SchemaEntry(TailEntities)>>
                   [] OTHER                -> <<ErrorEntry(entities), SchemaEntry(TailEntities)>>)>> >>)

NoClassification == [summary |-> <<>>, columns |-> <<>>]

----------------------------------------------------------------------------
(* SpecSchema: the schema extractor and the hidden counter on one schema   *)

InitSchema ==
    /\ phase = "schema"
    /\ \E k \in 0..MaxEntities : \E entities \in [1..k -> Entities] : \E shape \in DocShapes :
           conceptual_schema = SchemaDoc(entities, shape)
    /\ report_columns = <<>>
    /\ num_of_hidden = 0
    /\ exploration_response = Null
    /\ classified = NoClassification
    /\ NewAnalyzer /\ NoScan /\ NoHistory /\ NoSteps

\* report_columns = fetch_columns_and_tables(conceptual_schema)
FetchColumns ==
    /\ phase = "schema"
    /\ report_columns' = fetch_columns_and_tables(conceptual_schema)
    /\ phase' = "columns"
    /\ UNCHANGED <<conceptual_schema, num_of_hidden, exploration_response, classified>>
    /\ UNCHANGED <<statVars, scanVars, histVars, stepVars>>

\* num_of_hidden = count_hidden_true_in_dict(conceptual_schema)
CountHidden ==
    /\ phase = "schema"
    /\ num_of_hidden' = count_hidden_true_in_dict(conceptual_schema)
    /\ phase' = "hidden"
    /\ UNCHANGED <<conceptual_schema, report_columns, exploration_response, classified>>
    /\ UNCHANGED <<statVars, scanVars, histVars, stepVars>>

\* _process_report: num_of_hidden = count_hidden_true_in_dict(conceptual_schema)
\* after report_columns = fetch_columns_and_tables(conceptual_schema)
CountHiddenAfterFetch ==
    /\ phase = "columns"
    /\ num_of_hidden' = count_hidden_true_in_dict(conceptual_schema)
    /\ phase' = "columns_and_hidden"
    /\ UNCHANGED <<conceptual_schema, report_columns, exploration_response, classified>>
    /\ UNCHANGED <<statVars, scanVars, histVars, stepVars>>

NextSchema == FetchColumns \/ CountHidden \/ CountHiddenAfterFetch

SpecSchema == InitSchema /\ [][NextSchema]_vars

----------------------------------------------------------------------------
(* Claims about the hidden counter                                         *)

SwapItems(items, i) ==
    [j \in 1..Len(items) |->
        IF j = i THEN items[i + 1] ELSE IF j = i + 1 THEN items[i] ELSE items[j]]

RECURSIVE KeySwaps(_)
\* The documents that differ from d by one swap of two neighbouring keys of
\* one object, anywhere in d. Such swaps generate every reordering of keys.
KeySwaps(d) ==
    IF d.tag \notin {"obj", "arr"} THEN {}
    ELSE LET inner ==
                 UNION { { [d EXCEPT !.val[i] =
                               IF d.tag = "obj" THEN <<d.val[i][1], c>> ELSE c] :
                           c \in KeySwaps(IF d.tag = "obj" THEN d.val[i][2] ELSE d.val[i]) } :
                         i \in 1..Len(d.val) }
         IN  IF d.tag = "obj"
             THEN inner \cup { Obj(SwapItems(d.val, i)) : i \in 1..(Len(d.val) - 1) }
             ELSE inner

\* C4: the hidden count is the same for any two documents that differ only in
\* the order of the keys inside their objects: swapping two neighbouring keys
\* of any object of the schema leaves the count as it is.
C4_KeyOrderInvariance ==
    phase = "hidden" =>
        \A d \in KeySwaps(conceptual_schema) : count_hidden_true_in_dict(d) = num_of_hidden

\* The object is a synthetic date table: it has a Name that starts with one of
\* the two literals, wherever the key stands.
HasDateTableName(d) ==
    \E i \in 1..Len(d.val) : d.val[i][1] = "Name" /\ IsDateTableName(d.val[i][2])

RECURSIVE HiddenOutsideDateTables(_, _)
RECURSIVE SumOver(_, _, _)
\* The Hidden: true fields of d that lie in no date table's subtree.
HiddenOutsideDateTables(d, excluded) ==
    CASE d.tag = "obj" -> SumOver(d, 1, excluded \/ HasDateTableName(d))
      [] d.tag = "arr" -> SumOver(d, 1, excluded)
      [] OTHER         -> 0

SumOver(d, i, excluded) ==
    IF i > Len(d.val) THEN 0
    ELSE LET child == IF d.tag = "obj" THEN d.val[i][2] ELSE d.val[i]
             own   == IF /\ d.tag = "obj"
                         /\ d.val[i][1] = "Hidden"
                         /\ child = Bool(TRUE)
                         /\ ~excluded
                      THEN 1 ELSE 0
         IN  own + HiddenOutsideDateTables(child, excluded) + SumOver(d, i + 1, excluded)

\* C5: the hidden count is the number of Hidden: true fields that lie outside
\* the subtree of every object whose Name starts with DateTableTemplate or
\* LocalDateTable.
C5_DateTableSubtreeExcluded ==
    phase = "hidden" => num_of_hidden = HiddenOutsideDateTables(conceptual_schema, FALSE)

\* C26: the exclusion set by a date table's Name reaches that object and its
\* descendants only: every Hidden: true field that lies outside the subtree
\* of every date table, in an element beside it, after it or above it, is
\* counted.
C26_SiblingIndependence ==
    phase = "hidden" => num_of_hidden >= HiddenOutsideDateTables(conceptual_schema, FALSE)

\* A date table whose Name comes first, followed in the same array by a user
\* table with hidden fields, which are counted.
C26_Witness ==
    /\ phase = "hidden"
    /\ LET entities ==
               dict_get(dict_get(dict_get(conceptual_schema, "schemas", Arr(<<>>)).val[1],
                                 "schema", Obj(<<>>)), "Entities", Arr(<<>>)).val
       IN  /\ Len(entities) = 2
           /\ entities[1].val[1][1] = "Name"
           /\ HasDateTableName(entities[1])
           /\ ~HasDateTableName(entities[2])
           /\ HiddenOutsideDateTables(entities[2], FALSE) = 2
           /\ recursive_count(entities[1], FALSE) = 0
    /\ num_of_hidden >= 2

----------------------------------------------------------------------------
(* Claims about the schema extractor                                       *)

SchemaEntries(doc) == dict_get(doc, "schemas", Arr(<<>>)).val
EntitiesOf(doc, i) ==
    dict_get(dict_get(SchemaEntries(doc)[i], "schema", Obj(<<>>)), "Entities", Arr(<<>>)).val
PropertiesOf(doc, i, k) == dict_get(EntitiesOf(doc, i)[k], "Properties", Arr(<<>>)).val

NoErrorEntries(doc) ==
    \A i \in 1..Len(SchemaEntries(doc)) : ~HasKey(SchemaEntries(doc)[i], "error")

\* The (entry, entity, property) occurrences of a schema document.
Occurrences(doc) ==
    UNION { UNION { { <<i, k, j>> : j \in 1..Len(PropertiesOf(doc, i, k)) } :
                    k \in 1..Len(EntitiesOf(doc, i)) } :
            i \in 1..Len(SchemaEntries(doc)) }

TableOf(doc, o)  == dict_get(EntitiesOf(doc, o[1])[o[2]], "Name", Null).val
ColumnOf(doc, o) == dict_get(PropertiesOf(doc, o[1], o[2])[o[3]], "Name", Null).val

\* The occurrences whose table name holds neither literal.
UserOccurrences(doc) ==
    { o \in Occurrences(doc) :
        /\ ~IsSubstring(DateTableTemplate, TableOf(doc, o))
        /\ ~IsSubstring(LocalDateTable, TableOf(doc, o)) }

\* o1 is met no later than o2 when the document is read from its start.
MetBefore(o1, o2) ==
    \/ o1[1] < o2[1]
    \/ o1[1] = o2[1] /\ o1[2] < o2[2]
    \/ o1[1] = o2[1] /\ o1[2] = o2[2] /\ o1[3] <= o2[3]

\* C7: for a schema document without error entries, fetch_columns_and_tables
\* returns one {table, column} pair per (entity, property) occurrence whose
\* table name holds neither DateTableTemplate nor LocalDateTable, in the order
\* of the document, and no pair of a table whose name holds either.
C7_ExtractorFilter ==
    (phase = "columns" /\ NoErrorEntries(conceptual_schema)) =>
        LET doc  == conceptual_schema
            kept == UserOccurrences(doc)
        IN  /\ Len(report_columns) = Cardinality(kept)
            /\ \A o \in kept :
                 LET n == Cardinality({ q \in kept : MetBefore(q, o) })
                 IN  /\ report_columns[n].table = TableOf(doc, o)
                     /\ report_columns[n].column = ColumnOf(doc, o)
            /\ \A n \in 1..Len(report_columns) :
                 /\ ~IsSubstring(DateTableTemplate, report_columns[n].table)
                 /\ ~IsSubstring(LocalDateTable, report_columns[n].table)

\* A schema of two entries without error whose first entity is a table named
\* MyLocalDateTable, dropped, and whose other columns are returned.
C7_Witness ==
    /\ phase = "columns"
    /\ NoErrorEntries(conceptual_schema)
    /\ Len(SchemaEntries(conceptual_schema)) = 2
    /\ \E o \in Occurrences(conceptual_schema) :
         /\ TableOf(conceptual_schema, o) = <<"M","y">> \o LocalDateTable
         /\ o[2] = 1
    /\ Len(report_columns) >= 3
    /\ Len(report_columns) < Cardinality(Occurrences(conceptual_schema))

\* The first schema entry that carries the key error, 0 when there is none.
FirstErrorEntry(doc) ==
    IF NoErrorEntries(doc) THEN 0
    ELSE CHOOSE i \in 1..Len(SchemaEntries(doc)) :
             /\ HasKey(SchemaEntries(doc)[i], "error")
             /\ \A h \in 1..(i - 1) : ~HasKey(SchemaEntries(doc)[h], "error")

\* C21: when entry i is the first schema entry that carries an error field,
\* fetch_columns_and_tables returns the pairs of the entries before i whose
\* table name holds neither literal, in the order of the document; entry i
\* and the entries after it give no pair.
C21_ErrorShortCircuit ==
    (phase = "columns" /\ FirstErrorEntry(conceptual_schema) > 0) =>
        LET doc  == conceptual_schema
            kept == { o \in UserOccurrences(doc) : o[1] < FirstErrorEntry(doc) }
        IN  /\ Len(report_columns) = Cardinality(kept)
            /\ \A o \in kept :
                 LET n == Cardinality({ q \in kept : MetBefore(q, o) })
                 IN  /\ report_columns[n].table = TableOf(doc, o)
                     /\ report_columns[n].column = ColumnOf(doc, o)

\* The value of the entry's error field is true in Python's sense: present
\* and not null, not empty.
HasError(doc, i) == Truthy(dict_get(SchemaEntries(doc)[i], "error", Null))

\* C21, amended: when entry i is the first schema entry whose error field is
\* present and not null or empty, fetch_columns_and_tables returns the pairs
\* of the entries before i whose table name holds neither literal, in the
\* order of the document; entry i and the entries after it give no pair. An
\* entry whose error field is null is read as an entry without error.
C21_TruthyErrorShortCircuit ==
    phase = "columns" =>
        \A i \in 1..Len(SchemaEntries(conceptual_schema)) :
            (HasError(conceptual_schema, i)
                /\ \A h \in 1..(i - 1) : ~HasError(conceptual_schema, h)) =>
            LET doc  == conceptual_schema
                kept == { o \in UserOccurrences(doc) : o[1] < i }
            IN  /\ Len(report_columns) = Cardinality(kept)
                /\ \A o \in kept :
                     LET n == Cardinality({ q \in kept : MetBefore(q, o) })
                     IN  /\ report_columns[n].table = TableOf(doc, o)
                         /\ report_columns[n].column = ColumnOf(doc, o)

\* A first entry with two user columns, an error entry with a user column
\* after it, and exactly the two columns of the first entry returned.
C21_Witness ==
    /\ phase = "columns"
    /\ Len(SchemaEntries(conceptual_schema)) = 2
    /\ ~HasError(conceptual_schema, 1)
    /\ HasError(conceptual_schema, 2)
    /\ \E o \in UserOccurrences(conceptual_schema) : o[1] = 2
    /\ Len(report_columns) = 2
    /\ Cardinality(UserOccurrences(conceptual_schema)) = 3

----------------------------------------------------------------------------
(* SpecClassify: the usage classifier on one column list and one evidence  *)

MaxColumns == 3

Stock == <<"S","t","o","c","k">>
Id    == <<"I","d">>

\* The (table, column) pairs of the classifier's inputs, in a fixed order.
ClassifyPairs == << <<Sales, Qty>>, <<Sales, Price>>, <<Sales, Id>>, <<Stock, Qty>> >>

\* How the evidence names a column it uses: "Sales.Qty", "'Sales'.Qty", or
\* the table and the column in two members.
EvidenceStyles == { "plain", "quoted", "split" }

EvidenceRef(pair, style) ==
    CASE style = "plain"  -> Str(pair[1] \o <<".">> \o pair[2])
      [] style = "quoted" ->
           Obj(<< << <<"q","u","e","r","y","R","e","f">>,
                     Str(<<"'">> \o pair[1] \o <<"'", ".">> \o pair[2]) >> >>)
      [] OTHER            ->
           Obj(<< << <<"E","n","t","i","t","y">>, Str(pair[1]) >>,
                  << <<"P","r","o","p","e","r","t","y">>, Str(pair[2]) >> >>)

RECURSIVE EvidenceRefs(_, _, _)
EvidenceRefs(i, used, style) ==
    IF i > Len(ClassifyPairs) THEN <<>>
    ELSE (IF i \in used THEN <<EvidenceRef(ClassifyPairs[i], style)>> ELSE <<>>)
         \o EvidenceRefs(i + 1, used, style)

\* The evidence document that uses the pairs numbered in `used`.
EvidenceDoc(used, style) == Arr(EvidenceRefs(1, used, style))

InitClassify ==
    /\ phase = "evidence"
    /\ conceptual_schema = Null
    /\ num_of_hidden = 0
    /\ \E n \in 0..MaxColumns : \E cols \in [1..n -> 1..Len(ClassifyPairs)] :
           report_columns =
               [i \in 1..n |-> ColumnDict(ClassifyPairs[cols[i]][1], ClassifyPairs[cols[i]][2])]
    /\ \E used \in SUBSET (1..Len(ClassifyPairs)) : \E style \in EvidenceStyles :
           exploration_response = EvidenceDoc(used, style)
    /\ classified = NoClassification
    /\ NewAnalyzer /\ NoScan /\ NoHistory /\ NoSteps

\* unused_message, all_columns = get_classified_columns(report_columns,
\* exploration_response); the column dicts of report_columns are written in
\* place and returned.
Classify ==
    /\ phase = "evidence"
    /\ classified' = get_classified_columns(report_columns, exploration_response)
    /\ report_columns' = classified'.columns
    /\ phase' = "classified"
    /\ UNCHANGED <<conceptual_schema, num_of_hidden, exploration_response>>
    /\ UNCHANGED <<statVars, scanVars, histVars, stepVars>>

\* get_classified_columns is called once more, on the list it returned and
\* the same evidence.
Reclassify ==
    /\ phase = "classified"
    /\ classified' = get_classified_columns(report_columns, exploration_response)
    /\ report_columns' = classified'.columns
    /\ phase' = "reclassified"
    /\ UNCHANGED <<conceptual_schema, num_of_hidden, exploration_response>>
    /\ UNCHANGED <<statVars, scanVars, histVars, stepVars>>

NextClassify == Classify \/ Reclassify

SpecClassify == InitClassify /\ [][NextClassify]_vars

----------------------------------------------------------------------------
(* Claims about the usage classifier                                       *)

TablesOf(cols) == { cols[i].table : i \in 1..Len(cols) }

\* The positions of table's columns in the column list, in its order.
PositionsOf(cols, table) == { i \in 1..Len(cols) : cols[i].table = table }

\* "table.column" occurs in the evidence's text without its quotes.
Occurs(col, evidence) ==
    IsSubstring(col.table \o <<".">> \o col.column, normalized_json_string(evidence))

UnusedPositions(cols, table, evidence) ==
    { i \in PositionsOf(cols, table) : ~Occurs(cols[i], evidence) }

\* The k-th smallest member of a set of numbers.
KthOf(S, k) == CHOOSE x \in S : Cardinality({ y \in S : y <= x }) = k

\* "<table>: [c1, c2, ...]"
ListEntry(table, names) ==
    table \o <<":", " ", "[">> \o str_join(<<",", " ">>, names) \o <<"]">>

WildcardEntry(table) == table \o <<":", " ", "[", ".", "*", "]">>

\* Some, not all, of the table's columns are unused.
PartlyUnused(cols, table, evidence) ==
    /\ UnusedPositions(cols, table, evidence) # {}
    /\ UnusedPositions(cols, table, evidence) # PositionsOf(cols, table)

\* The listings of the table's unused columns: every arrangement of them.
Arrangements(cols, P) ==
    { [k \in 1..Cardinality(P) |-> cols[f[k]].column] :
        f \in { g \in [1..Cardinality(P) -> P] : \A a, b \in 1..Cardinality(P) : a # b => g[a] # g[b] } }

\* The statement of C3 as claimed: the entry of a partly unused table lists its
\* unused columns in the order they have in report_columns.
C3_PartialListInInputOrder ==
    phase = "classified" =>
        \A table \in TablesOf(report_columns) :
            PartlyUnused(report_columns, table, exploration_response) =>
                LET P == UnusedPositions(report_columns, table, exploration_response)
                IN  IsSubstring(
                        ListEntry(table, [k \in 1..Cardinality(P) |-> report_columns[KthOf(P, k)].column]),
                        classified.summary)

\* C3, amended: the entry of a partly unused table lists exactly its unused
\* columns in ascending order of their names (by code point), separated by
\* ", ".
C3_PartialListSorted ==
    phase = "classified" =>
        \A table \in TablesOf(report_columns) :
            PartlyUnused(report_columns, table, exploration_response) =>
                \E names \in Arrangements(report_columns,
                                          UnusedPositions(report_columns, table, exploration_response)) :
                    /\ \A k \in 1..(Len(names) - 1) : ~StrLess(names[k + 1], names[k])
                    /\ IsSubstring(ListEntry(table, names), classified.summary)

\* Sales has the columns Qty, Price, Id in this order, Id alone is used, and
\* the summary is the entry that lists Price before Qty.
C3_Witness ==
    /\ phase = "classified"
    /\ Len(report_columns) = 3
    /\ report_columns[1].table = Sales /\ report_columns[1].column = Qty
    /\ report_columns[2].table = Sales /\ report_columns[2].column = Price
    /\ report_columns[3].table = Sales /\ report_columns[3].column = Id
    /\ UnusedPositions(report_columns, Sales, exploration_response) = {1, 2}
    /\ classified.summary = ListEntry(Sales, <<Price, Qty>>)

\* C6: for every table of the input, the summary holds "T: [.*]" when none of
\* the table's columns occurs as "T.col" in the quote-stripped evidence, an
\* entry "T: [...]" of exactly the columns that do not occur when some but not
\* all occur, and no entry of the table when all occur.
C6_WildcardRule ==
    phase = "classified" =>
        \A table \in TablesOf(report_columns) :
            LET all    == PositionsOf(report_columns, table)
                unused == UnusedPositions(report_columns, table, exploration_response)
            IN  /\ unused = all =>
                     IsSubstring(WildcardEntry(table), classified.summary)
                /\ (unused # {} /\ unused # all) =>
                     \E names \in Arrangements(report_columns, unused) :
                         IsSubstring(ListEntry(table, names), classified.summary)
                /\ unused = {} =>
                     ~IsSubstring(table \o <<":", " ", "[">>, classified.summary)

\* Two tables, one with no column in the evidence and one with some: both
\* kinds of entry are in the summary.
C6_Witness ==
    /\ phase = "classified"
    /\ UnusedPositions(report_columns, Stock, exploration_response)
         = PositionsOf(report_columns, Stock)
    /\ PositionsOf(report_columns, Stock) # {}
    /\ PartlyUnused(report_columns, Sales, exploration_response)
    /\ IsSubstring(WildcardEntry(Stock), classified.summary)
    /\ IsSubstring(Sales \o <<":", " ", "[">>, classified.summary)

----------------------------------------------------------------------------
(* base_analyzer.py: _insert_all_columns                                   *)

SamePair(a, b) == a.table = b.table /\ a.column = b.column

\* An insertion that gives a pair already present the flag of the incoming
\* column.
insert_column_overwrite(existing, column) ==
    IF ~\E i \in 1..Len(existing) : SamePair(existing[i], column)
    THEN Append(existing, column)
    ELSE [i \in 1..Len(existing) |->
            IF SamePair(existing[i], column)
            THEN [existing[i] EXCEPT !.unused = column.unused]
            ELSE existing[i]]

\* One pass of the loop `for column in all_columns`. The dict appended is the
\* report's own dict; nothing reads the report's list after the call, so the
\* copy the model keeps is the same to every later read.
insert_column(existing, column) ==
    IF ~\E i \in 1..Len(existing) : SamePair(existing[i], column)
    THEN Append(existing, column)
    ELSE [i \in 1..Len(existing) |->
            IF SamePair(existing[i], column)
            THEN [existing[i] EXCEPT !.unused = "True"]
            ELSE existing[i]]

RECURSIVE insert_columns(_, _)
\* self._unused_columns after the loop over all_columns
insert_columns(existing, all_columns) ==
    IF all_columns = <<>> THEN existing
    ELSE insert_columns(insert_column(existing, Head(all_columns)), Tail(all_columns))

\* self._insert_all_columns(all_columns, num_of_hidden)
_insert_all_columns(all_columns, hidden) ==
    /\ _reports_with_hidden_columns' =
           IF hidden > 0 THEN _reports_with_hidden_columns + 1
           ELSE _reports_with_hidden_columns
    /\ _unused_columns' = insert_columns(_unused_columns, all_columns)

\* The pairs a classified column list has as unused.
UnusedPairs(all_columns) ==
    { <<all_columns[i].table, all_columns[i].column>> :
        i \in { j \in 1..Len(all_columns) : all_columns[j].unused = "True" } }

----------------------------------------------------------------------------
(* SpecAccum: the global accumulator over the reports of a scan, one        *)
(* _insert_all_columns call per analyzed report                            *)

MaxInserts == 3
MaxReportColumns == 2

\* The pairs of the reports: the numbers of two of ClassifyPairs.
AccumPairs == {1, 2}

\* The column lists of a report, as numbers of pairs.
AccumColumnLists == UNION { [1..n -> AccumPairs] : n \in 0..MaxReportColumns }

\* What get_classified_columns returns for each column list and each set of
\* pairs the evidence uses (@@ has TLC tabulate the function once).
AccumClassified ==
    [cols \in AccumColumnLists |->
        [used \in SUBSET AccumPairs |->
            get_classified_columns(
                [i \in 1..Len(cols) |->
                    ColumnDict(ClassifyPairs[cols[i]][1], ClassifyPairs[cols[i]][2])],
                EvidenceDoc(used, "plain"))] @@ <<>>] @@ <<>>

InitAccum ==
    /\ phase = "accumulate"
    /\ conceptual_schema = Null
    /\ report_columns = <<>>
    /\ num_of_hidden = 0
    /\ exploration_response = Null
    /\ classified = NoClassification
    /\ NewAnalyzer /\ NoScan /\ NoHistory /\ NoSteps

\* A report is analyzed: its columns are classified against its evidence and
\* inserted (_process_report, from fetch_columns_and_tables to
\* _insert_all_columns).
InsertReport ==
    /\ phase = "accumulate"
    /\ _success_count < MaxInserts
    /\ \E cols \in AccumColumnLists : \E used \in SUBSET AccumPairs : \E hidden \in 0..1 :
           LET result == AccumClassified[cols][used]
           IN  /\ report_columns' = result.columns
               /\ _insert_all_columns(result.columns, hidden)
               /\ unused_seen' = unused_seen \cup UnusedPairs(result.columns)
    /\ _success_count' = _success_count + 1
    /\ UNCHANGED <<phase, conceptual_schema, num_of_hidden, exploration_response, classified>>
    /\ UNCHANGED <<_results, _reports_with_unused_columns, _errors>>
    /\ UNCHANGED <<scanVars, counted, raised, at_timeout, stepVars>>

NextAccum == InsertReport

SpecAccum == InitAccum /\ [][NextAccum]_vars

\* C2: each pair of the accumulator carries the unused flag if and only if at
\* least one processed report classified the pair as unused.
C2_EverSeenUnused ==
    phase = "accumulate" =>
        \A i \in 1..Len(_unused_columns) :
            (_unused_columns[i].unused = "True")
                <=> (<<_unused_columns[i].table, _unused_columns[i].column>> \in unused_seen)

----------------------------------------------------------------------------
(* SpecScan: _run_analysis over the reports of one scan, the workers of    *)
(* the thread pool running _process_report                                 *)

NumReports == 3
MaxWorkers == 2
MaxClock == 2

\* _send_conceptual_schema_request: max_retries
max_retries == 5

Analyzers == { "public", "shared" }

\* The budget in readings of the clock: 0 is the zero budget, 1 stands for
\* the 10 and the 60 minutes.
TimeLimits == { 0, 1 }

Reports == DOMAIN task

Running  == { "fetching", "sleeping", "classifying" }
Finished == { "done", "skipped", "no_data", "timeout", "timeout_swallowed" }

\* The reports of a scan: one with both of its columns used and no hidden
\* column, one with a column unused and a hidden column.
ScanColumns == << ColumnDict(Sales, Qty), ColumnDict(Sales, Price) >>
ScanReports == { [used |-> {1, 2}, hidden |-> 0], [used |-> {1}, hidden |-> 1] }

\* What the documents of a report classify to.
ScanClassified ==
    [report \in ScanReports |->
        get_classified_columns(ScanColumns, EvidenceDoc(report.used, "plain"))] @@ <<>>

\* A test that takes every summary for a non-empty one.
str_truthy_always(summary) == TRUE

\* `if report_with_unused:` / `if unused_message:`, the truth value of a str
str_truthy(summary) == summary # <<>>

\* A budget check that trips one reading late.
TimeExpiredLate == now - start_time > time_limit + 1

\* A budget check that trips at one reading of the clock only.
TimeExpiredOnce == now - start_time = time_limit + 1

\* datetime.now() - start_time > timedelta(minutes=...)
TimeExpired == now - start_time > time_limit

\* A shutdown that stops the running tasks too.
cancel_and_kill(tasks) ==
    [r \in DOMAIN tasks |->
        IF tasks[r] = "pending" \/ tasks[r] \in Running THEN "cancelled" ELSE tasks[r]]

\* executor.shutdown(wait=False, cancel_futures=True): the work items still in
\* the queue are cancelled, the running ones are left alone.
cancel_futures(tasks) ==
    [r \in DOMAIN tasks |-> IF tasks[r] = "pending" THEN "cancelled" ELSE tasks[r]]

\* What future.result() raises for a finished task: _process_report lets the
\* TimeoutError of the public analyzer through and nothing else.
future_exception(r) == IF task[r] = "timeout" THEN "TimeoutError" ELSE "none"

InitScan ==
    /\ phase = "scan"
    /\ conceptual_schema = Null
    /\ report_columns = <<>>
    /\ num_of_hidden = 0
    /\ exploration_response = Null
    /\ classified = NoClassification
    /\ NewAnalyzer
    /\ analyzer \in Analyzers
    /\ time_limit \in TimeLimits
    /\ now = 0
    /\ start_time = 0
    /\ coordinator = "idle"
    /\ timed_out = FALSE
    /\ \E n \in 1..NumReports : /\ task = [r \in 1..n |-> "unsubmitted"]
                                /\ attempt = [r \in 1..n |-> 0]
    /\ consumed = {}
    /\ csv_rows = <<>>
    /\ NoHistory /\ NoSteps

\* _run_analysis up to the submission of the futures. A worker reads the clock
\* after the threads are started: its reading is later than start_time.
StartAnalysis ==
    /\ phase = "scan"
    /\ coordinator = "idle"
    /\ start_time' = now
    /\ now' = now + 1
    /\ timed_out' = FALSE
    /\ task' = [r \in Reports |-> "pending"]
    /\ coordinator' = "waiting"
    /\ UNCHANGED <<docVars, statVars, histVars, stepVars>>
    /\ UNCHANGED <<analyzer, time_limit, attempt, consumed, csv_rows>>

\* The clock advances while the scan runs.
Tick ==
    /\ phase = "scan"
    /\ coordinator \in { "waiting", "draining" }
    /\ now < MaxClock
    /\ now' = now + 1
    /\ UNCHANGED <<docVars, statVars, histVars, stepVars>>
    /\ UNCHANGED <<analyzer, time_limit, start_time, coordinator, timed_out, task,
                   attempt, consumed, csv_rows>>

\* A free worker takes the oldest work item of the queue and _process_report
\* makes its budget check.
TaskStart(r) ==
    /\ phase = "scan"
    /\ coordinator \in { "waiting", "draining" }
    /\ task[r] = "pending"
    /\ \A q \in Reports : q < r => task[q] # "pending"
    /\ Cardinality({ q \in Reports : task[q] \in Running }) < MaxWorkers
    /\ IF TimeExpired
       THEN /\ task' = [task EXCEPT ![r] = IF analyzer = "public" THEN "timeout"
                                           ELSE "timeout_swallowed"]
            /\ at_timeout' = IF at_timeout = <<>> THEN task ELSE at_timeout
       ELSE /\ task' = [task EXCEPT ![r] = "fetching"]
            /\ UNCHANGED at_timeout
    /\ UNCHANGED <<docVars, statVars, unused_seen, counted, raised, stepVars>>
    /\ UNCHANGED <<analyzer, time_limit, now, start_time, coordinator, timed_out,
                   attempt, consumed, csv_rows>>

\* What every step of a fetch leaves alone.
FetchFrame ==
    /\ UNCHANGED <<docVars, unused_seen, counted, at_timeout, stepVars>>
    /\ UNCHANGED <<analyzer, time_limit, now, start_time, coordinator, timed_out,
                   consumed, csv_rows>>
    /\ UNCHANGED <<_results, _unused_columns, _reports_with_hidden_columns,
                   _reports_with_unused_columns, _success_count>>

\* _get_report_data returns the two documents of the report.
FetchOk(r) ==
    /\ phase = "scan"
    /\ task[r] = "fetching"
    /\ task' = [task EXCEPT ![r] = "classifying"]
    /\ attempt' = [attempt EXCEPT ![r] = 0]
    /\ UNCHANGED <<_errors, raised>>
    /\ FetchFrame

\* PublicReportsAnalyzer: _send_exploration_request raises
\* ExplorationRequestError and _process_report records it.
FetchExplorationError(r) ==
    /\ phase = "scan"
    /\ analyzer = "public"
    /\ task[r] = "fetching"
    /\ _errors' = Append(_errors, [report |-> r, code |-> "error_code"])
    /\ task' = [task EXCEPT ![r] = "skipped"]
    /\ raised' = raised \cup {r}
    /\ UNCHANGED attempt
    /\ FetchFrame

\* Any other exception of a request (a status that is not 200, a malformed
\* answer): `except Exception` of _process_report.
FetchError(r) ==
    /\ phase = "scan"
    /\ task[r] = "fetching"
    /\ task' = [task EXCEPT ![r] = "skipped"]
    /\ attempt' = [attempt EXCEPT ![r] = 0]
    /\ raised' = raised \cup {r}
    /\ UNCHANGED _errors
    /\ FetchFrame

\* SharedReportsAnalyzer: _send_push_access_request returns None and
\* `if response_data:` skips the report.
FetchNoAccess(r) ==
    /\ phase = "scan"
    /\ analyzer = "shared"
    /\ task[r] = "fetching"
    /\ attempt[r] = 0
    /\ task' = [task EXCEPT ![r] = "no_data"]
    /\ UNCHANGED <<attempt, _errors, raised>>
    /\ FetchFrame

\* SharedReportsAnalyzer: the conceptual schema request is answered 429 and
\* the worker sleeps.
RateLimited(r) ==
    /\ phase = "scan"
    /\ analyzer = "shared"
    /\ task[r] = "fetching"
    /\ attempt[r] < max_retries
    /\ task' = [task EXCEPT ![r] = "sleeping"]
    /\ UNCHANGED <<attempt, _errors, raised>>
    /\ FetchFrame

\* A loop without an end.
loop_never_ends(k) == TRUE

\* `for attempt in range(max_retries)`: the loop has a pass for the value k
loop_continues(k) == k < max_retries

\* A retry without a bound: after the sleep the loop starts again from its
\* first attempt.
WakeUpRestart(r) ==
    /\ phase = "scan"
    /\ task[r] = "sleeping"
    /\ attempt' = [attempt EXCEPT ![r] = 0]
    /\ task' = [task EXCEPT ![r] = "fetching"]
    /\ UNCHANGED <<_errors, raised>>
    /\ FetchFrame

\* The sleep ends: the next attempt, or 'Max retries exceeded' after the last;
\* attempt then stays at the number of requests that were made.
WakeUp(r) ==
    /\ phase = "scan"
    /\ task[r] = "sleeping"
    /\ attempt' = [attempt EXCEPT ![r] = @ + 1]
    /\ IF loop_continues(attempt[r] + 1)
       THEN /\ task' = [task EXCEPT ![r] = "fetching"]
            /\ UNCHANGED raised
       ELSE /\ task' = [task EXCEPT ![r] = "skipped"]
            /\ raised' = raised \cup {r}
    /\ UNCHANGED _errors
    /\ FetchFrame

\* The documents are classified and the report is recorded: from
\* fetch_columns_and_tables to self._results.append.
ClassifyAndRecord(r) ==
    /\ phase = "scan"
    /\ task[r] = "classifying"
    /\ \E report \in ScanReports :
           LET result == ScanClassified[report]
           IN  /\ _insert_all_columns(result.columns, report.hidden)
               /\ unused_seen' = unused_seen \cup UnusedPairs(result.columns)
               /\ classified' = result
               /\ num_of_hidden' = report.hidden
               /\ IF str_truthy(result.summary)
                  THEN /\ _reports_with_unused_columns' = _reports_with_unused_columns + 1
                       /\ _results' = Append(_results,
                              [report |-> r, hidden |-> report.hidden,
                               summary |-> result.summary])
                  ELSE UNCHANGED <<_reports_with_unused_columns, _results>>
    /\ _success_count' = _success_count + 1
    /\ task' = [task EXCEPT ![r] = "done"]
    /\ counted' = counted \cup {r}
    /\ UNCHANGED <<phase, conceptual_schema, report_columns, exploration_response>>
    /\ UNCHANGED <<_errors, raised, at_timeout, stepVars>>
    /\ UNCHANGED <<analyzer, time_limit, now, start_time, coordinator, timed_out,
                   attempt, consumed, csv_rows>>

\* A failure that comes after _insert_all_columns has run.
ClassifyErrorAfterInsert(r) ==
    /\ phase = "scan"
    /\ task[r] = "classifying"
    /\ \E report \in ScanReports :
           _insert_all_columns(ScanClassified[report].columns, report.hidden)
    /\ task' = [task EXCEPT ![r] = "skipped"]
    /\ raised' = raised \cup {r}
    /\ UNCHANGED <<attempt, _errors, _results, _reports_with_unused_columns, _success_count>>
    /\ UNCHANGED <<docVars, unused_seen, counted, at_timeout, stepVars>>
    /\ UNCHANGED <<analyzer, time_limit, now, start_time, coordinator, timed_out,
                   consumed, csv_rows>>

\* A document the counter, the extractor or the classifier cannot walk: the
\* exception is caught by `except Exception`.
ClassifyError(r) ==
    /\ phase = "scan"
    /\ task[r] = "classifying"
    /\ task' = [task EXCEPT ![r] = "skipped"]
    /\ raised' = raised \cup {r}
    /\ UNCHANGED <<attempt, _errors>>
    /\ FetchFrame

\* as_completed hands a finished future to the loop of _run_analysis.
Consume(r) ==
    /\ phase = "scan"
    /\ coordinator = "waiting"
    /\ task[r] \in Finished
    /\ r \notin consumed
    /\ consumed' = consumed \cup {r}
    /\ CASE future_exception(r) = "none" ->
                UNCHANGED <<timed_out, task, coordinator>>
         [] future_exception(r) = "TimeoutError" ->
                /\ timed_out' = TRUE
                /\ task' = cancel_futures(task)
                /\ coordinator' = "draining"
         [] OTHER ->
                /\ coordinator' = "escaped"
                /\ UNCHANGED <<timed_out, task>>
    /\ UNCHANGED <<docVars, statVars, histVars, stepVars>>
    /\ UNCHANGED <<analyzer, time_limit, now, start_time, attempt, csv_rows>>

\* Every future was handed over: the loop ends.
LoopEnd ==
    /\ phase = "scan"
    /\ coordinator = "waiting"
    /\ consumed = Reports
    /\ coordinator' = "draining"
    /\ UNCHANGED <<docVars, statVars, histVars, stepVars>>
    /\ UNCHANGED <<analyzer, time_limit, now, start_time, timed_out, task, attempt,
                   consumed, csv_rows>>

\* The exit of `with ThreadPoolExecutor()` joins the workers, then
\* write_to_csv writes self._results.
FinishAnalysis ==
    /\ phase = "scan"
    /\ coordinator = "draining"
    /\ \A r \in Reports : task[r] \notin Running /\ task[r] # "pending"
    /\ csv_rows' = _results
    /\ coordinator' = "done"
    /\ UNCHANGED <<docVars, statVars, histVars, stepVars>>
    /\ UNCHANGED <<analyzer, time_limit, now, start_time, timed_out, task, attempt,
                   consumed>>

NextScan ==
    \/ StartAnalysis
    \/ Tick
    \/ \E r \in Reports : TaskStart(r)
    \/ \E r \in Reports : FetchOk(r)
    \/ \E r \in Reports : FetchExplorationError(r)
    \/ \E r \in Reports : FetchError(r)
    \/ \E r \in Reports : FetchNoAccess(r)
    \/ \E r \in Reports : RateLimited(r)
    \/ \E r \in Reports : WakeUp(r)
    \/ \E r \in Reports : ClassifyAndRecord(r)
    \/ \E r \in Reports : ClassifyError(r)
    \/ \E r \in Reports : Consume(r)
    \/ LoopEnd
    \/ FinishAnalysis

SpecScan == InitScan /\ [][NextScan]_vars

----------------------------------------------------------------------------
(* The claims of the scan                                                  *)

\* The reports a row of self._results was appended for.
RowReports(rows) == { rows[i].report : i \in 1..Len(rows) }

\* The tasks that raised the timeout signal.
Signalled == { r \in Reports : task[r] \in { "timeout", "timeout_swallowed" } }

\* C1: when exactly one report's task raised an exception other than the
\* timeout signal during fetch or classify and every other report completed,
\* then at the end of the scan _success_count is N - 1 and _errors holds
\* exactly one entry, which names the failed report.
C1_PerReportIsolation ==
    ( /\ phase = "scan"
      /\ coordinator = "done"
      /\ Cardinality(raised) = 1
      /\ \A r \in Reports \ raised : task[r] = "done" )
    => /\ _success_count = Len(task) - 1
       /\ Len(_errors) = 1
       /\ _errors[1].report \in raised

C9_TimeoutStopsScheduling ==
    (phase = "scan" /\ at_timeout # <<>>)
    => /\ \A r \in Reports :
              at_timeout[r] = "pending"
                  => task[r] \in { "pending", "cancelled", "timeout", "timeout_swallowed" }
       /\ coordinator = "done" => \A r \in Reports : task[r] \notin Running
       /\ Signalled \cap counted = {}
       /\ _success_count = Cardinality(counted)

\* A scan ended after a timeout: one task was running when the signal was
\* raised and ran to its end, another was still in the queue and never
\* fetched.
C9_Witness ==
    /\ phase = "scan"
    /\ at_timeout # <<>>
    /\ coordinator = "done"
    /\ \E r \in Reports : at_timeout[r] \in Running /\ task[r] \in Finished
    /\ \E r \in Reports : at_timeout[r] = "pending" /\ r \notin Signalled
    /\ Signalled # {}

\* C10 as stated: a report that was in the queue or in flight when the
\* timeout signal was first raised never increments _success_count and never
\* gets a row in _results.
C10_MidFlightAbsent ==
    (phase = "scan" /\ at_timeout # <<>>)
    => \A r \in Reports :
           (at_timeout[r] = "pending" \/ at_timeout[r] \in Running)
               => r \notin counted /\ r \notin RowReports(_results)

\* C10, amended: a report that was still in the queue when the timeout signal
\* was first raised never increments _success_count and never gets a row; a
\* report in flight at that moment is not cancelled, and when it completes
\* its classification it is counted like any other report.
C10_OnlyQueuedAbsent ==
    (phase = "scan" /\ at_timeout # <<>>)
    => \A r \in Reports :
           /\ at_timeout[r] = "pending"
                  => /\ r \notin counted
                     /\ r \notin RowReports(_results)
                     /\ r \notin RowReports(csv_rows)
           /\ at_timeout[r] \in Running
                  => /\ task[r] # "cancelled"
                     /\ task[r] = "done" => r \in counted

\* A report in flight when the signal was raised was counted and its row
\* written, while a report of the queue was cancelled.
C10_Witness ==
    /\ phase = "scan"
    /\ at_timeout # <<>>
    /\ coordinator = "done"
    /\ \E r \in Reports :
           /\ at_timeout[r] \in Running
           /\ r \in counted
           /\ r \in RowReports(csv_rows)
    /\ \E r \in Reports : at_timeout[r] = "pending" /\ task[r] = "cancelled"

----------------------------------------------------------------------------
(* The accumulator over a scan                                             *)

----------------------------------------------------------------------------
(* Recording a report                                                      *)

\* C14: a task that completes fetch and classification adds exactly one to
\* _success_count; it appends exactly one row, its own, to _results when the
\* summary of its classification is not empty, and leaves _results alone
\* otherwise. No other step of a task touches either.
C14_RecordedVsSuccess ==
    [][ phase = "scan" =>
        \A r \in Reports :
            IF task[r] = "classifying" /\ task'[r] = "done"
            THEN /\ _success_count' = _success_count + 1
                 /\ IF classified'.summary # <<>>
                    THEN _results' = Append(_results,
                             [report |-> r, hidden |-> num_of_hidden',
                              summary |-> classified'.summary])
                    ELSE _results' = _results
            ELSE (task'[r] # task[r]) =>
                     /\ _success_count' = _success_count
                     /\ _results' = _results ]_vars

\* A scan ended with a report that is counted and has its row and a report
\* that is counted without a row.
C14_Witness ==
    /\ phase = "scan"
    /\ coordinator = "done"
    /\ \E r \in counted : r \in RowReports(csv_rows)
    /\ \E r \in counted : r \notin RowReports(csv_rows)
    /\ _success_count = Cardinality(counted)
    /\ Len(_results) < _success_count

----------------------------------------------------------------------------
(* The classifier run twice, and the flag it writes                        *)

\* C18: a second run of get_classified_columns on the list the first run
\* returned and the same evidence gives the same summary and the same unused
\* flag on every column.
C18_ClassifierIdempotent ==
    [][ (phase = "classified" /\ phase' = "reclassified")
            => /\ classified'.summary = classified.summary
               /\ Len(report_columns') = Len(report_columns)
               /\ \A i \in 1..Len(report_columns) :
                      /\ SamePair(report_columns'[i], report_columns[i])
                      /\ report_columns'[i].unused = report_columns[i].unused ]_vars

\* The second run is over a list with flagged and unflagged columns and a
\* summary that is not empty.
C18_Witness ==
    /\ phase = "reclassified"
    /\ classified.summary # <<>>
    /\ \E i \in 1..Len(report_columns) : report_columns[i].unused = "True"
    /\ \E i \in 1..Len(report_columns) : report_columns[i].unused = "absent"

\* The text of the evidence as json.dumps writes it, without its double and
\* single quotes.
StrippedText(evidence) ==
    SelectSeq(json_dumps(evidence), LAMBDA c : c # "\"" /\ c # "'")

\* C20: get_classified_columns returns the columns of its input in their
\* order; a column has unused = True exactly when "table.column" is no
\* substring of the stripped text of the evidence, and has no unused flag
\* otherwise.
C20_UnusedFlagDefinition ==
    [][ (phase = "evidence" /\ phase' = "classified")
            => /\ Len(report_columns') = Len(report_columns)
               /\ classified'.columns = report_columns'
               /\ \A i \in 1..Len(report_columns) :
                      /\ SamePair(report_columns'[i], report_columns[i])
                      /\ report_columns'[i].unused =
                             IF IsSubstring(report_columns[i].table \o <<".">>
                                                \o report_columns[i].column,
                                            StrippedText(exploration_response))
                             THEN "absent" ELSE "True" ]_vars

\* The evidence names a column with its table in single quotes, the column
\* is left without the flag and another column of the list is flagged.
C20_Witness ==
    /\ phase = "classified"
    /\ IsSubstring(<<"'">> \o Sales \o <<"'", ".">> \o Qty, json_dumps(exploration_response))
    /\ \E i \in 1..Len(report_columns) :
           /\ report_columns[i].table = Sales /\ report_columns[i].column = Qty
           /\ report_columns[i].unused = "absent"
    /\ \E i \in 1..Len(report_columns) : report_columns[i].unused = "True"

----------------------------------------------------------------------------
(* The structure of the summary                                            *)

\* The tables that have a column at one of the positions U.
TablesWithUnused(cols, U) == { cols[i].table : i \in U }

\* The position at which the table is first met in the column list.
FirstPosition(cols, table) ==
    CHOOSE i \in PositionsOf(cols, table) : \A j \in PositionsOf(cols, table) : i <= j

\* The k-th of these tables in the order of their first appearance.
KthTable(cols, U, k) ==
    CHOOSE table \in TablesWithUnused(cols, U) :
        Cardinality({ other \in TablesWithUnused(cols, U) :
                        FirstPosition(cols, other) <= FirstPosition(cols, table) }) = k

\* The entry of a table whose unused columns are at the positions U: the
\* wildcard when all of its columns are unused, the list of its unused
\* columns in ascending order otherwise.
EntryOf(cols, table, U) ==
    IF PositionsOf(cols, table) \subseteq U
    THEN WildcardEntry(table)
    ELSE ListEntry(table,
             CHOOSE names \in Arrangements(cols, PositionsOf(cols, table) \cap U) :
                 \A k \in 1..(Len(names) - 1) : ~StrLess(names[k + 1], names[k]))

\* C27: the summary is the entries of the tables that have an unused column,
\* one per table, in the order in which the tables first appear in
\* report_columns, joined with ", "; it is empty exactly when no column is
\* flagged unused.
C27_SummaryStructure ==
    phase = "classified" =>
        LET cols == report_columns
            text == normalized_json_string(exploration_response)
            U    == { i \in 1..Len(cols) :
                        ~IsSubstring(cols[i].table \o <<".">> \o cols[i].column, text) }
            n    == Cardinality(TablesWithUnused(cols, U))
        IN  /\ classified.summary =
                   str_join(<<",", " ">>, [k \in 1..n |-> EntryOf(cols, KthTable(cols, U, k), U)])
            /\ classified.summary = <<>>
                   <=> \A i \in 1..Len(cols) : cols[i].unused # "True"
            /\ str_truthy(classified.summary) <=> U # {}

\* Stock is met before Sales, each has an unused column, and the summary is
\* the entry of Stock, ", ", and the entry of Sales.
C27_Witness ==
    /\ phase = "classified"
    /\ Len(report_columns) = 3
    /\ report_columns[1].table = Stock
    /\ report_columns[2].table = Sales /\ report_columns[2].column = Qty
    /\ report_columns[3].table = Sales /\ report_columns[3].column = Price
    /\ report_columns[3].unused = "absent"
    /\ classified.summary =
           WildcardEntry(Stock) \o <<",", " ">> \o ListEntry(Sales, <<Qty>>)

----------------------------------------------------------------------------
(* SpecScenario: _process_report on the report with the table Sales{Qty,   *)
(* Price} and a date table with the column Year, whose evidence names      *)
(* Sales.Qty                                                               *)

Year == <<"Y","e","a","r">>

HiddenFlags == { "absent", "true", "false" }

\* The member Hidden of an object, if it has one.
HiddenMember(flag) ==
    CASE flag = "true"  -> << <<"Hidden", Bool(TRUE)>> >>
      [] flag = "false" -> << <<"Hidden", Bool(FALSE)>> >>
      [] OTHER          -> <<>>

ScenarioProperty(name, flag) == Obj(<< <<"Name", Str(name)>> >> \o HiddenMember(flag))

\* An entity with its Name before or after its Hidden member.
ScenarioEntity(name, props, flag, name_first) ==
    Obj((IF name_first THEN << <<"Name", Str(name)>> >> \o HiddenMember(flag)
                       ELSE HiddenMember(flag) \o << <<"Name", Str(name)>> >>)
        \o << <<"Properties", Arr(props)>> >>)

DateTableNames == { LocalDateTable \o <<"_","1">>, LocalDateTable \o <<"_","a","b">> }

InitScenario ==
    /\ phase = "fetched"
    /\ \E qty \in HiddenFlags, price \in HiddenFlags, sales \in HiddenFlags,
          year \in HiddenFlags, date \in HiddenFlags,
          date_name \in DateTableNames, name_first \in BOOLEAN, sales_first \in BOOLEAN :
           LET sales_entity == ScenarioEntity(Sales,
                                   << ScenarioProperty(Qty, qty), ScenarioProperty(Price, price) >>,
                                   sales, TRUE)
               date_entity  == ScenarioEntity(date_name, << ScenarioProperty(Year, year) >>,
                                   date, name_first)
           IN  conceptual_schema =
                   SchemaDoc(IF sales_first THEN <<sales_entity, date_entity>>
                                            ELSE <<date_entity, sales_entity>>, "one")
    /\ \E style \in { "plain", "quoted" } : exploration_response = EvidenceDoc({1}, style)
    /\ report_columns = <<>>
    /\ num_of_hidden = 0
    /\ classified = NoClassification
    /\ NewAnalyzer /\ NoScan /\ NoHistory /\ NoSteps

\* report_columns = fetch_columns_and_tables(conceptual_schema)
ProcessFetchColumns ==
    /\ phase = "fetched"
    /\ report_columns' = fetch_columns_and_tables(conceptual_schema)
    /\ phase' = "extracted"
    /\ UNCHANGED <<conceptual_schema, num_of_hidden, exploration_response, classified>>
    /\ UNCHANGED <<statVars, scanVars, histVars, stepVars>>

\* num_of_hidden = count_hidden_true_in_dict(conceptual_schema)
ProcessCountHidden ==
    /\ phase = "extracted"
    /\ num_of_hidden' = count_hidden_true_in_dict(conceptual_schema)
    /\ phase' = "counted"
    /\ UNCHANGED <<conceptual_schema, report_columns, exploration_response, classified>>
    /\ UNCHANGED <<statVars, scanVars, histVars, stepVars>>

\* report_with_unused, all_columns = get_classified_columns(report_columns,
\* exploration_response)
ProcessClassify ==
    /\ phase = "counted"
    /\ classified' = get_classified_columns(report_columns, exploration_response)
    /\ report_columns' = classified'.columns
    /\ phase' = "classified_report"
    /\ UNCHANGED <<conceptual_schema, num_of_hidden, exploration_response>>
    /\ UNCHANGED <<statVars, scanVars, histVars, stepVars>>

NextScenario == ProcessFetchColumns \/ ProcessCountHidden \/ ProcessClassify

SpecScenario == InitScenario /\ [][NextScenario]_vars

\* The number of members Hidden: true of the document, wherever they are.
RECURSIVE HiddenTrueMembers(_)
HiddenTrueMembers(d) ==
    CASE d.tag = "obj" ->
           LET count[i \in 0..Len(d.val)] ==
                   IF i = 0 THEN 0
                   ELSE count[i - 1] + HiddenTrueMembers(d.val[i][2])
                        + (IF d.val[i][1] = "Hidden" /\ d.val[i][2] = Bool(TRUE) THEN 1 ELSE 0)
           IN  count[Len(d.val)]
      [] d.tag = "arr" ->
           LET count[i \in 0..Len(d.val)] ==
                   IF i = 0 THEN 0 ELSE count[i - 1] + HiddenTrueMembers(d.val[i])
           IN  count[Len(d.val)]
      [] OTHER -> 0

\* C19: in the scenario the extractor yields Sales.Qty and Sales.Price and
\* nothing of the date table; the classifier returns the summary
\* "Sales: [Price]" and flags Sales.Price alone; the hidden count is the one
\* the schema document gives, whatever the evidence, and no more than the
\* document's Hidden: true members.
C19_EndToEndScenario ==
    /\ phase \in { "extracted", "counted" }
           => report_columns = << ColumnDict(Sales, Qty), ColumnDict(Sales, Price) >>
    /\ phase \in { "counted", "classified_report" }
           => /\ num_of_hidden = count_hidden_true_in_dict(conceptual_schema)
              /\ num_of_hidden <= HiddenTrueMembers(conceptual_schema)
    /\ phase = "classified_report"
           => /\ classified.summary = ListEntry(Sales, <<Price>>)
              /\ Len(report_columns) = 2
              /\ report_columns[1].table = Sales /\ report_columns[1].column = Qty
              /\ report_columns[1].unused = "absent"
              /\ report_columns[2].table = Sales /\ report_columns[2].column = Price
              /\ report_columns[2].unused = "True"

\* The scenario ran to its end on a schema that lists the date table first
\* and has hidden columns in both tables.
C19_Witness ==
    /\ phase = "classified_report"
    /\ HasDateTableName(EntitiesOf(conceptual_schema, 1)[1])
    /\ HiddenTrueMembers(conceptual_schema) >= 2
    /\ num_of_hidden = 1
    /\ classified.summary = ListEntry(Sales, <<Price>>)

----------------------------------------------------------------------------
(* The extractor and the hidden counter on the same schema                 *)

\* The table of the entity has a column in the inventory.
InInventory(entity) ==
    \E n \in 1..Len(report_columns) :
        report_columns[n].table = dict_get(entity, "Name", Str(UnknownTable)).val

\* The Hidden: true members of the entities of the document whose table is
\* in the inventory.
HiddenInInventory(doc) ==
    LET of_entry(i) ==
            LET entities == EntitiesOf(doc, i)
                count[k \in 0..Len(entities)] ==
                    IF k = 0 THEN 0
                    ELSE count[k - 1]
                         + (IF InInventory(entities[k])
                            THEN HiddenTrueMembers(entities[k]) ELSE 0)
            IN  count[Len(entities)]
        total[i \in 0..Len(SchemaEntries(doc))] ==
            IF i = 0 THEN 0 ELSE total[i - 1] + of_entry(i)
    IN  total[Len(SchemaEntries(doc))]

\* C30: on a schema without error entries the two functions exclude the same
\* entities: the hidden count is the number of Hidden: true members of the
\* entities whose table is in the column list, and nothing is counted for an
\* entity that the column list leaves out.
C30_ExtractorCounterAgree ==
    (phase = "columns_and_hidden" /\ NoErrorEntries(conceptual_schema)) =>
        num_of_hidden = HiddenInInventory(conceptual_schema)

----------------------------------------------------------------------------
(* SharedReportsAnalyzer._send_conceptual_schema_request: the wait of a    *)
(* 429 response                                                            *)

\* _send_conceptual_schema_request: backoff_factor
backoff_factor == 5

RetryIn      == <<"R","e","t","r","y"," ","i","n">>
RetryInSpace == <<"R","e","t","r","y"," ","i","n"," ">>
SpaceSeconds == <<" ","s","e","c","o","n","d","s">>

\* The first position where sub occurs in s, 0 if it does not occur.
str_find(s, sub) ==
    LET hits == { i \in 1..(Len(s) - Len(sub) + 1) : SubSeq(s, i, i + Len(sub) - 1) = sub }
    IN  IF hits = {} THEN 0 ELSE CHOOSE i \in hits : \A j \in hits : i <= j

\* s.split(sep)[0]
split_first(s, sep) ==
    IF str_find(s, sep) = 0 THEN s ELSE SubSeq(s, 1, str_find(s, sep) - 1)

\* What follows the first sep in s.
after_first(s, sep) == SubSeq(s, str_find(s, sep) + Len(sep), Len(s))

\* s.split(sep)[1]; the caller has checked that sep occurs.
split_second(s, sep) == split_first(after_first(s, sep), sep)

Digits == <<"0","1","2","3","4","5","6","7","8","9">>
IsDigit(c) == \E d \in 1..Len(Digits) : Digits[d] = c
DigitValue(c) == (CHOOSE d \in 1..Len(Digits) : Digits[d] = c) - 1

RECURSIVE DecimalValue(_)
DecimalValue(s) ==
    IF s = <<>> THEN 0
    ELSE 10 * DecimalValue(SubSeq(s, 1, Len(s) - 1)) + DigitValue(s[Len(s)])

\* The result of a statement that raised.
Raises == -1

\* int(s) of a str: blanks around the digits are dropped; anything but digits
\* raises ValueError. (No message of the model carries a sign or an
\* underscore.)
int_of_str(s) ==
    LET stripped == SelectSeq(s, LAMBDA c : c # " ")
        inner    == IF str_find(s, stripped) = 0 THEN <<>> ELSE stripped
    IN  IF inner # <<>> /\ \A i \in 1..Len(inner) : IsDigit(inner[i])
        THEN DecimalValue(inner)
        ELSE Raises

\* int(message.split('Retry in ')[1].split(' seconds')[0]): IndexError when
\* 'Retry in ' does not occur, ValueError when what is cut out is no number.
hinted_wait(text) ==
    IF str_find(text, RetryInSpace) = 0 THEN Raises
    ELSE int_of_str(split_first(split_second(text, RetryInSpace), SpaceSeconds))

\* A wait that takes no account of the attempt.
wait_time_flat(message, k) ==
    IF message.tag = "str" /\ message.val # <<>> /\ IsSubstring(RetryIn, message.val)
    THEN hinted_wait(message.val)
    ELSE backoff_factor

\* wait_time of the 429 branch, for the message of the response and the
\* loop variable attempt.
wait_time(message, k) ==
    IF message.tag = "str" /\ message.val # <<>> /\ IsSubstring(RetryIn, message.val)
    THEN hinted_wait(message.val)
    ELSE backoff_factor * (2 ^ k)

----------------------------------------------------------------------------
(* SpecRetry: one call of _send_conceptual_schema_request, whatever the    *)
(* service answers                                                         *)

\* The member 'message' of a 429 response: absent, empty, without a hint,
\* with a hint, with a hint inside a longer text, and with 'Retry in' followed
\* by no number.
Messages ==
    { Null,
      Str(<<>>),
      Str(<<"T","o","o"," ","m","a","n","y"," ","r","e","q","u","e","s","t","s">>),
      Str(<<"R","e","t","r","y"," ","i","n"," ","7"," ","s","e","c","o","n","d","s">>),
      Str(<<"S","l","o","w"," ","d","o","w","n","."," ","R","e","t","r","y"," ","i","n"," ","1","2"," ","s","e","c","o","n","d","s",".">>),
      Str(<<"R","e","t","r","y"," ","i","n"," ","a"," ","f","e","w"," ","s","e","c","o","n","d","s">>) }

Responses ==
    { [status |-> 200, message |-> Null], [status |-> 500, message |-> Null] }
    \cup { [status |-> 429, message |-> message] : message \in Messages }

InitRetry ==
    /\ phase = "retry"
    /\ conceptual_schema = Null
    /\ report_columns = <<>>
    /\ num_of_hidden = 0
    /\ exploration_response = Null
    /\ classified = NoClassification
    /\ NewAnalyzer /\ NoScan /\ NoHistory
    /\ retry_pc = "loop"
    /\ retry_attempt = 0
    /\ requests = 0
    /\ last_response = "none"
    /\ waits = <<>>
    /\ worker = <<>>

RetryFrame == UNCHANGED <<docVars, statVars, scanVars, histVars, worker>>

\* requests.post(...) inside `for attempt in range(max_retries)`
SendRequest ==
    /\ phase = "retry"
    /\ retry_pc = "loop"
    /\ retry_attempt < max_retries
    /\ requests' = requests + 1
    /\ \E answer \in Responses : last_response' = answer
    /\ retry_pc' = "answered"
    /\ UNCHANGED <<retry_attempt, waits>>
    /\ RetryFrame

\* status 200: return response.json()
ReturnDocument ==
    /\ phase = "retry"
    /\ retry_pc = "answered"
    /\ last_response.status = 200
    /\ retry_pc' = "returned"
    /\ UNCHANGED <<retry_attempt, requests, last_response, waits>>
    /\ RetryFrame

\* status 429: wait_time is worked out and time.sleep(wait_time) is called
SleepOn429 ==
    /\ phase = "retry"
    /\ retry_pc = "answered"
    /\ last_response.status = 429
    /\ wait_time(last_response.message, retry_attempt) # Raises
    /\ waits' = Append(waits, wait_time(last_response.message, retry_attempt))
    /\ retry_pc' = "sleeping"
    /\ UNCHANGED <<retry_attempt, requests, last_response>>
    /\ RetryFrame

\* status 429 with 'Retry in' in the message and no number to read: the
\* IndexError or ValueError leaves the function.
HintUnreadable ==
    /\ phase = "retry"
    /\ retry_pc = "answered"
    /\ last_response.status = 429
    /\ wait_time(last_response.message, retry_attempt) = Raises
    /\ retry_pc' = "raised_hint"
    /\ UNCHANGED <<retry_attempt, requests, last_response, waits>>
    /\ RetryFrame

\* A loop that treats every status but 200 as it treats 429.
RetryOnStatus ==
    /\ phase = "retry"
    /\ retry_pc = "answered"
    /\ last_response.status \notin { 200, 429 }
    /\ waits' = Append(waits, backoff_factor * (2 ^ retry_attempt))
    /\ retry_pc' = "sleeping"
    /\ UNCHANGED <<retry_attempt, requests, last_response>>
    /\ RetryFrame

\* any other status: raise Exception('Failed to send conceptual schema
\* request. ...')
RaiseOnStatus ==
    /\ phase = "retry"
    /\ retry_pc = "answered"
    /\ last_response.status \notin { 200, 429 }
    /\ retry_pc' = "raised_status"
    /\ UNCHANGED <<retry_attempt, requests, last_response, waits>>
    /\ RetryFrame

\* time.sleep returns: the next value of the loop variable
NextAttempt ==
    /\ phase = "retry"
    /\ retry_pc = "sleeping"
    /\ retry_attempt' = retry_attempt + 1
    /\ retry_pc' = "loop"
    /\ UNCHANGED <<requests, last_response, waits>>
    /\ RetryFrame

\* the loop is exhausted: raise Exception('Max retries exceeded ...')
RaiseMaxRetries ==
    /\ phase = "retry"
    /\ retry_pc = "loop"
    /\ retry_attempt >= max_retries
    /\ retry_pc' = "raised_max_retries"
    /\ UNCHANGED <<retry_attempt, requests, last_response, waits>>
    /\ RetryFrame

NextRetry ==
    \/ SendRequest
    \/ ReturnDocument
    \/ SleepOn429
    \/ HintUnreadable
    \/ RaiseOnStatus
    \/ NextAttempt
    \/ RaiseMaxRetries

SpecRetry == InitRetry /\ [][NextRetry]_vars

----------------------------------------------------------------------------
(* The claims of the retried request                                       *)

RECURSIVE DecimalString(_)
\* str(n) of a natural number
DecimalString(n) ==
    IF n < 10 THEN <<Digits[n + 1]>>
    ELSE DecimalString(n \div 10) \o <<Digits[(n % 10) + 1]>>

\* The numbers N for which the message carries the hint "Retry in N seconds".
HintsOf(message) ==
    IF message.tag # "str" THEN {}
    ELSE { n \in 0..99 :
             IsSubstring(RetryInSpace \o DecimalString(n) \o SpaceSeconds, message.val) }

\* The wait the claim gives for a message and an attempt index.
ClaimedWait(message, k) ==
    IF HintsOf(message) # {} THEN CHOOSE n \in HintsOf(message) : TRUE
    ELSE backoff_factor * (2 ^ k)

\* C16: a 429 answer at attempt index k is followed by a sleep of exactly N
\* seconds when its message carries the hint "Retry in N seconds" and of
\* exactly 5 * 2^k seconds otherwise, and either sleep takes one attempt.
C16_BackoffDelay ==
    [][ (phase = "retry" /\ retry_pc = "answered" /\ last_response.status = 429)
            => /\ retry_pc' = "sleeping"
               /\ waits' = Append(waits, ClaimedWait(last_response.message, retry_attempt))
               /\ retry_attempt' = retry_attempt ]_vars

\* C17: an answer that is neither 200 nor 429 ends the call with an exception
\* at once, and an answer 200 ends it with the document at once: no sleep
\* and no request follows either, at any attempt index.
C17_NonRetryable ==
    /\ [][ (phase = "retry" /\ retry_pc = "answered" /\ last_response.status \notin { 200, 429 })
               => retry_pc' = "raised_status" /\ waits' = waits /\ requests' = requests ]_vars
    /\ [][ (phase = "retry" /\ retry_pc = "answered" /\ last_response.status = 200)
               => retry_pc' = "returned" /\ waits' = waits /\ requests' = requests ]_vars
    /\ [][ (phase = "retry" /\ retry_pc \in { "raised_status", "returned" })
               => UNCHANGED <<requests, waits, retry_pc>> ]_vars
    /\ [](phase = "retry" => requests <= Len(waits) + 1)

\* After two 429 answers and their sleeps the third answer is neither 200 nor
\* 429 and the call has raised with three requests sent and two sleeps made.
C17_Witness ==
    /\ phase = "retry"
    /\ retry_pc = "raised_status"
    /\ retry_attempt = 2
    /\ requests = 3
    /\ Len(waits) = 2

\* C29: when the call has ended, every sleep it made was followed by another
\* request: the sleeps are at most the requests minus one, and a 429 answer to
\* the last permitted request is followed by the exception without a sleep.
C29_NoWaitAfterLastAttempt ==
    ( /\ phase = "retry"
      /\ retry_pc \in { "returned", "raised_status", "raised_hint", "raised_max_retries" } )
    => Len(waits) <= requests - 1

----------------------------------------------------------------------------
(* The retried request inside a scan                                       *)

\* C15: a report's conceptual schema request is sent at most max_retries
\* times; when every one of them is answered 429 the fetch fails, and the
\* report is skipped: it is not counted and has no row.
C15_BoundedRetry ==
    /\ [](phase = "scan" =>
            \A r \in Reports :
                /\ attempt[r] <= max_retries
                /\ task[r] \in { "fetching", "sleeping" } => attempt[r] < max_retries
                /\ attempt[r] = max_retries
                       => /\ task[r] = "skipped"
                          /\ r \in raised
                          /\ r \notin counted
                          /\ r \notin RowReports(_results))
    /\ [][ phase = "scan" =>
             \A r \in Reports :
                 (task[r] = "sleeping" /\ attempt[r] = max_retries - 1 /\ task'[r] # task[r])
                     => /\ task'[r] = "skipped"
                        /\ attempt'[r] = max_retries
                        /\ _success_count' = _success_count
                        /\ _results' = _results ]_vars

\* A scan ended in which a report used up its requests and a report taken
\* from the queue after it was analyzed and counted.
C15_Witness ==
    /\ phase = "scan"
    /\ analyzer = "shared"
    /\ coordinator = "done"
    /\ \E r \in Reports :
           /\ attempt[r] = max_retries
           /\ task[r] = "skipped"
           /\ \E q \in Reports : q > r /\ q \in counted
    /\ _success_count = Cardinality(counted)

----------------------------------------------------------------------------
(* The accumulators and the reports that fail                              *)

\* C24: no step of a task other than the one that completes it changes
\* _success_count, _results, _reports_with_unused_columns,
\* _reports_with_hidden_columns or _unused_columns; a task that ended skipped
\* is not counted and has no row.
C24_FailureLeavesAccumulators ==
    /\ [][ phase = "scan" =>
             \A r \in Reports :
                 (task'[r] # task[r] /\ task'[r] # "done")
                     => UNCHANGED <<_success_count, _results, _reports_with_unused_columns,
                                    _reports_with_hidden_columns, _unused_columns>> ]_vars
    /\ [](phase = "scan" =>
            \A r \in Reports :
                task[r] = "skipped" => r \notin counted /\ r \notin RowReports(_results))

\* A scan ended in which a report failed in classification after another had
\* been recorded with a hidden column and an unused column, and one failed in
\* its fetch.
C24_Witness ==
    /\ phase = "scan"
    /\ coordinator = "done"
    /\ \E r \in Reports : task[r] = "skipped" /\ r \in raised /\ attempt[r] = 0
    /\ Cardinality(raised) >= 2
    /\ _success_count = 1
    /\ _reports_with_hidden_columns = 1
    /\ Len(_results) = 1
    /\ Len(_unused_columns) = 2

----------------------------------------------------------------------------
(* Termination of a scan                                                   *)

\* The steps of the task of report r: every request returns, every sleep
\* ends, every call of the worker returns.
TaskStep(r) ==
    \/ TaskStart(r)
    \/ FetchOk(r)
    \/ FetchExplorationError(r)
    \/ FetchError(r)
    \/ FetchNoAccess(r)
    \/ RateLimited(r)
    \/ WakeUp(r)
    \/ ClassifyAndRecord(r)
    \/ ClassifyError(r)

\* The steps of the thread that runs _run_analysis.
CoordinatorStep ==
    \/ StartAnalysis
    \/ \E r \in Reports : Consume(r)
    \/ LoopEnd
    \/ FinishAnalysis

\* A scan whose threads keep running: as long as some thread can take a
\* step, one of them does. The clock is not asked to advance.
SpecScanFair ==
    /\ InitScan
    /\ [][NextScan]_vars
    /\ WF_vars(CoordinatorStep \/ \E r \in Reports : TaskStep(r))

\* The outcomes a task ends in.
Terminal == Finished \cup { "cancelled" }

\* C28: every scan ends: every task reaches a terminal outcome, a request is
\* sent at most max_retries times, and _run_analysis writes the rows and
\* returns.
C28_ScanTerminates ==
    /\ <>[](/\ coordinator = "done"
            /\ csv_rows = _results
            /\ \A r \in Reports : task[r] \in Terminal)
    /\ [](\A r \in Reports : attempt[r] <= max_retries)

\* A scan that ended with a task of each outcome among its three: one
\* completed, one skipped after its last retry, one cancelled in the queue or
\* stopped by the budget.
C28_Witness ==
    /\ phase = "scan"
    /\ coordinator = "done"
    /\ csv_rows = _results
    /\ \E r \in Reports : task[r] = "done"
    /\ \E r \in Reports : task[r] = "skipped" /\ attempt[r] = max_retries
    /\ \A r \in Reports : task[r] \in Terminal

----------------------------------------------------------------------------
(* The timeout signal and the handlers of _process_report                  *)

\* C23: the timeout signal of a task's budget check is never absorbed by the
\* exception handlers of that task: it is what future.result() raises, and
\* when the coordinator has taken the future of such a task it has set
\* timed_out.
C23_TimeoutNotAbsorbed ==
    phase = "scan" =>
        /\ \A r \in Signalled : future_exception(r) = "TimeoutError"
        /\ \A r \in Signalled \cap consumed : timed_out

----------------------------------------------------------------------------
(* SpecRace: the workers of the pool between get_classified_columns and    *)
(* the end of _process_report, one read or one write of shared state at a  *)
(* time. No lock guards the fields of the analyzer.                        *)

Workers == DOMAIN worker

\* The locals of worker w.
all_columns(w) == ScanClassified[worker[w].report].columns
summary_of(w)  == ScanClassified[worker[w].report].summary

InitRace ==
    /\ phase = "race"
    /\ conceptual_schema = Null
    /\ report_columns = <<>>
    /\ num_of_hidden = 0
    /\ exploration_response = Null
    /\ classified = NoClassification
    /\ NewAnalyzer /\ NoScan /\ NoHistory
    /\ retry_pc = "none"
    /\ retry_attempt = 0
    /\ requests = 0
    /\ last_response = "none"
    /\ waits = <<>>
    /\ \E reports \in [1..MaxWorkers -> ScanReports] :
           worker = [w \in 1..MaxWorkers |->
                        [pc |-> "insert", report |-> reports[w], i |-> 1, reg |-> 0]]

RaceFrame == UNCHANGED <<docVars, scanVars, unused_seen, raised, at_timeout, retryVars>>

\* _insert_all_columns: `if num_of_hidden > 0:` and the read of
\* self._reports_with_hidden_columns += 1
HiddenLoad(w) ==
    /\ phase = "race"
    /\ worker[w].pc = "insert"
    /\ worker' = [worker EXCEPT ![w] =
                     IF worker[w].report.hidden > 0
                     THEN [@ EXCEPT !.pc = "hidden_store", !.reg = _reports_with_hidden_columns]
                     ELSE [@ EXCEPT !.pc = "column_test"]]
    /\ UNCHANGED <<statVars, counted>>
    /\ RaceFrame

\* the write of self._reports_with_hidden_columns += 1
HiddenStore(w) ==
    /\ phase = "race"
    /\ worker[w].pc = "hidden_store"
    /\ _reports_with_hidden_columns' = worker[w].reg + 1
    /\ worker' = [worker EXCEPT ![w].pc = "column_test"]
    /\ UNCHANGED <<_results, _unused_columns, _reports_with_unused_columns,
                   _success_count, _errors, counted>>
    /\ RaceFrame

\* `for column in all_columns:` and `if not any(...)`
ColumnTest(w) ==
    /\ phase = "race"
    /\ worker[w].pc = "column_test"
    /\ worker' = [worker EXCEPT ![w].pc =
                     IF worker[w].i > Len(all_columns(w)) THEN "success_load"
                     ELSE IF ~\E k \in 1..Len(_unused_columns) :
                                 SamePair(_unused_columns[k], all_columns(w)[worker[w].i])
                          THEN "column_append"
                          ELSE "column_mark"]
    /\ UNCHANGED <<statVars, counted>>
    /\ RaceFrame

\* self._unused_columns.append(column)
ColumnAppend(w) ==
    /\ phase = "race"
    /\ worker[w].pc = "column_append"
    /\ _unused_columns' = Append(_unused_columns, all_columns(w)[worker[w].i])
    /\ worker' = [worker EXCEPT ![w].pc = "column_test", ![w].i = @ + 1]
    /\ UNCHANGED <<_results, _reports_with_hidden_columns, _reports_with_unused_columns,
                   _success_count, _errors, counted>>
    /\ RaceFrame

\* the else branch: existing_column['unused'] = True on the entries of the pair
ColumnMark(w) ==
    /\ phase = "race"
    /\ worker[w].pc = "column_mark"
    /\ _unused_columns' =
           [k \in 1..Len(_unused_columns) |->
               IF SamePair(_unused_columns[k], all_columns(w)[worker[w].i])
               THEN [_unused_columns[k] EXCEPT !.unused = "True"]
               ELSE _unused_columns[k]]
    /\ worker' = [worker EXCEPT ![w].pc = "column_test", ![w].i = @ + 1]
    /\ UNCHANGED <<_results, _reports_with_hidden_columns, _reports_with_unused_columns,
                   _success_count, _errors, counted>>
    /\ RaceFrame

\* the read of self._success_count += 1
SuccessLoad(w) ==
    /\ phase = "race"
    /\ worker[w].pc = "success_load"
    /\ worker' = [worker EXCEPT ![w].pc = "success_store", ![w].reg = _success_count]
    /\ UNCHANGED <<statVars, counted>>
    /\ RaceFrame

\* the write of self._success_count += 1, and `if report_with_unused:`
SuccessStore(w) ==
    /\ phase = "race"
    /\ worker[w].pc = "success_store"
    /\ _success_count' = worker[w].reg + 1
    /\ counted' = counted \cup {w}
    /\ worker' = [worker EXCEPT ![w].pc =
                     IF str_truthy(summary_of(w)) THEN "unused_load" ELSE "done"]
    /\ UNCHANGED <<_results, _unused_columns, _reports_with_hidden_columns,
                   _reports_with_unused_columns, _errors>>
    /\ RaceFrame

\* the read of self._reports_with_unused_columns += 1
UnusedLoad(w) ==
    /\ phase = "race"
    /\ worker[w].pc = "unused_load"
    /\ worker' = [worker EXCEPT ![w].pc = "unused_store",
                                ![w].reg = _reports_with_unused_columns]
    /\ UNCHANGED <<statVars, counted>>
    /\ RaceFrame

\* the write of self._reports_with_unused_columns += 1
UnusedStore(w) ==
    /\ phase = "race"
    /\ worker[w].pc = "unused_store"
    /\ _reports_with_unused_columns' = worker[w].reg + 1
    /\ worker' = [worker EXCEPT ![w].pc = "row_append"]
    /\ UNCHANGED <<_results, _unused_columns, _reports_with_hidden_columns,
                   _success_count, _errors, counted>>
    /\ RaceFrame

\* self._results.append(...)
RowAppend(w) ==
    /\ phase = "race"
    /\ worker[w].pc = "row_append"
    /\ _results' = Append(_results,
           [report |-> w, hidden |-> worker[w].report.hidden, summary |-> summary_of(w)])
    /\ worker' = [worker EXCEPT ![w].pc = "done"]
    /\ UNCHANGED <<_unused_columns, _reports_with_hidden_columns,
                   _reports_with_unused_columns, _success_count, _errors, counted>>
    /\ RaceFrame

NextRace ==
    \/ \E w \in Workers : HiddenLoad(w)
    \/ \E w \in Workers : HiddenStore(w)
    \/ \E w \in Workers : ColumnTest(w)
    \/ \E w \in Workers : ColumnAppend(w)
    \/ \E w \in Workers : ColumnMark(w)
    \/ \E w \in Workers : SuccessLoad(w)
    \/ \E w \in Workers : SuccessStore(w)
    \/ \E w \in Workers : UnusedLoad(w)
    \/ \E w \in Workers : UnusedStore(w)
    \/ \E w \in Workers : RowAppend(w)

SpecRace == InitRace /\ [][NextRace]_vars

\* C11: when every worker has finished, _success_count is the number of
\* reports that completed classification, _reports_with_unused_columns the
\* number of those with a summary that is not empty, and
\* _reports_with_hidden_columns the number of those with a hidden count
\* above 0.
C11_NoLostUpdates ==
    (phase = "race" /\ \A w \in Workers : worker[w].pc = "done")
    => /\ _success_count = Cardinality(Workers)
       /\ _reports_with_unused_columns
              = Cardinality({ w \in Workers : summary_of(w) # <<>> })
       /\ _reports_with_hidden_columns
              = Cardinality({ w \in Workers : worker[w].report.hidden > 0 })

\* C12: _unused_columns never holds two entries with the same table and
\* column.
C12_DistinctPairs ==
    phase = "race" =>
        \A i \in 1..Len(_unused_columns) : \A j \in 1..Len(_unused_columns) :
            i # j => ~SamePair(_unused_columns[i], _unused_columns[j])

\* C25: when every task has completed, each report has at most one row in
\* _results, and len(_results) = _reports_with_unused_columns <=
\* _success_count <= the number of reports, and
\* _reports_with_hidden_columns <= _success_count.
C25_RowAndCounterBounds ==
    (phase = "race" /\ \A w \in Workers : worker[w].pc = "done")
    => /\ \A i \in 1..Len(_results) : \A j \in 1..Len(_results) :
              _results[i].report = _results[j].report => i = j
       /\ Len(_results) = _reports_with_unused_columns
       /\ _reports_with_unused_columns <= _success_count
       /\ _success_count <= Cardinality(Workers)
       /\ _reports_with_hidden_columns <= _success_count

----------------------------------------------------------------------------
(* SpecAnalyze: analyze() from _intro to the scan. SharedReportsAnalyzer   *)
(* asks the service for the reports shared to the whole organization,      *)
(* PublicReportsAnalyzer reads the rows of the embed codes file.           *)

\* An entity of the listing with its artifactId, and one without.
ListedEntity    == Obj(<< <<"artifactId", Str(<<"r">>)>>, <<"displayName", Str(Sales)>> >>)
NamelessEntity  == Obj(<< <<"displayName", Str(Sales)>> >>)

\* The bodies of the listing's answer: up to NumReports entities, the key
\* missing, the key with null, and a body that is no object.
ListingBodies ==
    UNION { { Obj(<< <<"ArtifactAccessEntities", Arr(entities)>> >>) :
                entities \in [1..n -> { ListedEntity, NamelessEntity }] } : n \in 0..NumReports }
    \cup { Obj(<<>>), Obj(<< <<"ArtifactAccessEntities", Null>> >>), Null }

ListingResponses == { [status |-> status, body |-> body] :
                        status \in { 200, 401 }, body \in ListingBodies }

\* The comprehension of _extract_artifact_ids raises: the body has no get,
\* the value of the key cannot be walked, or an entity has no artifactId.
comprehension_raises(response) ==
    \/ response.tag # "obj"
    \/ dict_get(response, "ArtifactAccessEntities", Arr(<<>>)).tag # "arr"
    \/ \E i \in 1..Len(dict_get(response, "ArtifactAccessEntities", Arr(<<>>)).val) :
           LET entity == dict_get(response, "ArtifactAccessEntities", Arr(<<>>)).val[i]
           IN  entity.tag # "obj" \/ ~HasKey(entity, "artifactId")

\* An extraction that leaves out the entities it cannot read and returns the
\* others, none included.
_extract_artifact_ids_lenient(response) ==
    [exits |-> FALSE,
     ids   |-> IF response.tag # "obj"
                  \/ dict_get(response, "ArtifactAccessEntities", Arr(<<>>)).tag # "arr"
               THEN <<>>
               ELSE LET entities == dict_get(response, "ArtifactAccessEntities", Arr(<<>>)).val
                        listed   == SelectSeq(entities,
                                        LAMBDA e : e.tag = "obj" /\ HasKey(e, "artifactId"))
                    IN  [i \in 1..Len(listed) |-> dict_get(listed[i], "artifactId", Null).val]]

\* _extract_artifact_ids: the ids of the entities, or exit(1) when the
\* comprehension raises or the list is empty.
_extract_artifact_ids(response) ==
    IF comprehension_raises(response)
    THEN [exits |-> TRUE, ids |-> <<>>]
    ELSE LET entities == dict_get(response, "ArtifactAccessEntities", Arr(<<>>)).val
         IN  [exits |-> entities = <<>>,
              ids   |-> [i \in 1..Len(entities) |->
                            dict_get(entities[i], "artifactId", Null).val]]

InitAnalyze ==
    /\ phase = "intro"
    /\ conceptual_schema = Null
    /\ report_columns = <<>>
    /\ num_of_hidden = 0
    /\ exploration_response = Null
    /\ classified = NoClassification
    /\ NewAnalyzer
    /\ analyzer \in Analyzers
    /\ time_limit \in TimeLimits
    /\ now = 0
    /\ start_time = 0
    /\ coordinator = "idle"
    /\ timed_out = FALSE
    /\ task = <<>>
    /\ attempt = <<>>
    /\ consumed = {}
    /\ csv_rows = <<>>
    /\ NoHistory /\ NoSteps

IntroFrame ==
    /\ UNCHANGED <<conceptual_schema, report_columns, num_of_hidden, exploration_response,
                   classified>>
    /\ UNCHANGED <<statVars, histVars, worker>>
    /\ UNCHANGED <<analyzer, time_limit, now, start_time, coordinator, timed_out,
                   consumed, csv_rows>>
    /\ UNCHANGED <<retry_pc, retry_attempt, waits>>

\* PublicReportsAnalyzer._intro: the rows of the file, none included.
ReadRows ==
    /\ phase = "intro"
    /\ analyzer = "public"
    /\ \E n \in 0..NumReports : /\ task' = [r \in 1..n |-> "unsubmitted"]
                                /\ attempt' = [r \in 1..n |-> 0]
    /\ phase' = "scan"
    /\ UNCHANGED <<requests, last_response>>
    /\ IntroFrame

\* SharedReportsAnalyzer._links_shared_to_whole_organization_api: requests.get
GetListing ==
    /\ phase = "intro"
    /\ analyzer = "shared"
    /\ requests' = requests + 1
    /\ \E answer \in ListingResponses : last_response' = answer
    /\ phase' = "listing"
    /\ UNCHANGED <<task, attempt>>
    /\ IntroFrame

\* A status other than 200: the Exception leaves _intro and `except Exception`
\* of analyze prints 'Exiting due to an error.'
ListingRaises ==
    /\ phase = "listing"
    /\ last_response.status # 200
    /\ phase' = "caught"
    /\ UNCHANGED <<task, attempt, requests, last_response>>
    /\ IntroFrame

\* _extract_artifact_ids calls exit(1): SystemExit is no Exception and leaves
\* analyze.
ExtractExits ==
    /\ phase = "listing"
    /\ last_response.status = 200
    /\ _extract_artifact_ids(last_response.body).exits
    /\ phase' = "exited"
    /\ UNCHANGED <<task, attempt, requests, last_response>>
    /\ IntroFrame

\* _extract_artifact_ids returns the reports and _intro returns them.
ExtractReturns ==
    /\ phase = "listing"
    /\ last_response.status = 200
    /\ ~_extract_artifact_ids(last_response.body).exits
    /\ LET n == Len(_extract_artifact_ids(last_response.body).ids)
       IN  /\ task' = [r \in 1..n |-> "unsubmitted"]
           /\ attempt' = [r \in 1..n |-> 0]
    /\ phase' = "scan"
    /\ UNCHANGED <<requests, last_response>>
    /\ IntroFrame

NextAnalyze ==
    \/ ReadRows
    \/ GetListing
    \/ ListingRaises
    \/ ExtractExits
    \/ ExtractReturns
    \/ NextScan

SpecAnalyze == InitAnalyze /\ [][NextAnalyze]_vars

\* The listing failed, is malformed or is empty.
ListingUnusable(answer) ==
    \/ answer.status # 200
    \/ answer.body.tag # "obj"
    \/ ~HasKey(answer.body, "ArtifactAccessEntities")
    \/ dict_get(answer.body, "ArtifactAccessEntities", Null).tag # "arr"
    \/ dict_get(answer.body, "ArtifactAccessEntities", Null).val = <<>>
    \/ NamelessEntity \in { dict_get(answer.body, "ArtifactAccessEntities", Null).val[i] :
                              i \in 1..Len(dict_get(answer.body, "ArtifactAccessEntities", Null).val) }

\* C22: when the listing of the shared reports fails, is malformed or is
\* empty, the failure leaves _intro, as an exception that analyze receives or
\* as the exit of the process, and no scan starts: no task is ever created
\* or submitted and _success_count, _results and _errors stay empty.
C22_FatalListing ==
    /\ [](( /\ analyzer = "shared"
            /\ phase # "intro"
            /\ ListingUnusable(last_response) )
          => /\ phase \in { "listing", "caught", "exited" }
             /\ coordinator = "idle"
             /\ task = <<>>
             /\ _success_count = 0
             /\ _results = <<>>
             /\ _errors = <<>>)
    /\ [][ ( /\ analyzer = "shared"
             /\ phase = "listing"
             /\ ListingUnusable(last_response)
             /\ phase' # phase )
           => phase' \in { "caught", "exited" } ]_vars

\* A listing answered 200 with a readable entity and one without artifactId:
\* the process has exited before any scan.
C22_Witness ==
    /\ analyzer = "shared"
    /\ phase = "exited"
    /\ last_response.status = 200
    /\ last_response.body.tag = "obj"
    /\ dict_get(last_response.body, "ArtifactAccessEntities", Arr(<<>>)).val
           = << ListedEntity, NamelessEntity >>
    /\ task = <<>>

====
